---- MODULE Spec2Model ----
(***************************************************************************)
(* step-free-api: the credential-lease store, the length-framed stream     *)
(* decoder and the event transcoders of src/api/controllers/chat.ts.       *)
(*                                                                         *)
(* The program is single-threaded JavaScript: an action of this module is  *)
(* one macrotask (an I/O callback or a timer) or one promise continuation  *)
(* (microtask).  While promise continuations are pending no macrotask      *)
(* runs (NoMicrotask).                                                     *)
(***************************************************************************)
EXTENDS Integers, Sequences, FiniteSets, TLC

\* ------------------------------------------------------------- bounds
\* Concurrent callers of acquireToken.
NProcs == 2
\* acquireToken calls issued in one behaviour.
MaxCalls == 3
\* Advances of the clock in one behaviour.
MaxTicks == 2
\* Frames in one provider response.
MaxFrames == 3
\* Responses of up to this many frames arrive cut into chunks at arbitrary
\* byte offsets; longer ones arrive cut at frame boundaries (one or several
\* whole frames per chunk).
MaxCutFrames == 2
\* Concurrent completion requests.
NReqs == 2
\* The largest retry bound a build is configured with.
MaxRetryBound == 1
\* Advances of the clock during one upload.
MaxUploadTicks == 2
\* GetFileStatus requests of one upload.
MaxPolls == 3
\* Events of the sequence that is transcoded twice.
MaxEvents == 3
\* Turns of the history handed to messagesPrepare.
MaxTurns == 2
\* Parts of a turn whose content is a list of parts.
MaxParts == 2

\* ---------------------------------------------------- program constants
ACCESS_TOKEN_EXPIRES == 900
MAX_RETRY_COUNT == 0
RETRY_DELAY == 5000
FILE_MAX_SIZE == 104857600

Procs == 1..NProcs
Keys == {"rt1", "rt2"}
\* The requests that are made with a lease: createConversation,
\* removeConversation, the storage PUT and GetFileStatus of uploadFile, and
\* SendMessageStream of createCompletion / createCompletionStream.
Ops == {"create", "delete", "transfer", "poll", "send"}
\* What the provider answers to such a request.
Answers == {"ok", "unauthenticated", "failed"}
\* How a RegisterDevice exchange ends.
Outcomes == {"ok", "unauthenticated", "failed"}

VARIABLES
  accessTokenMap,             \* key -> cached value (chat.ts:43)
  accessTokenRequestQueueMap, \* key -> queue of waiting resolvers (chat.ts:45)
  exch,                       \* the RegisterDevice exchanges started so far
  pc,                         \* caller -> position in acquireToken / its request
  call,                       \* caller -> its current (or last) acquireToken call
  now,                        \* util.unixTimestamp()
  ticks,                      \* clock advances so far
  calls,                      \* acquireToken calls so far
  rejected                    \* the request the provider has just rejected as
                              \* unauthenticated, if that was the last step

leaseVars == <<accessTokenMap, accessTokenRequestQueueMap, exch, pc, call,
               now, ticks, calls, rejected>>

VARIABLES
  mode,        \* "buffered" (receiveStream) or "streaming" (createTransStream)
  frames,      \* the payloads of the frames the provider sends, in order
  wire,        \* the bytes of the response not yet delivered
  upstream,    \* the response stream: "open", "errored" or "closed"
  chunk,       \* let chunk (chat.ts:514, 660)
  temp,        \* let temp (chat.ts:515, 661)
  data,        \* receiveStream's completion object (chat.ts:471-484)
  refContent,  \* receiveStream's search side buffer (chat.ts:485)
  promise,     \* receiveStream's promise: "pending", "resolved", "rejected"
  transStream, \* createTransStream's PassThrough and what was done to it
  endCalls,    \* invocations of endCallback
  alive,       \* the process is running
  parsed,      \* the payloads handed to the parser so far
  abort        \* what the first throw of the parser left behind

streamVars == <<mode, frames, wire, upstream, chunk, temp, data, refContent,
                promise, transStream, endCalls, alive, parsed, abort>>

Reqs == 1..NReqs

VARIABLES
  maxRetry,  \* the retry bound of the build (MAX_RETRY_COUNT, chat.ts:17)
  req,       \* request -> the createCompletion(Stream) call and its response
  convs,     \* the conversations the provider has created, by chatId
  writers    \* decoder buffer and accumulator of a request -> the requests
             \* whose handlers have read or written them

pipeVars == <<maxRetry, req, convs, writers>>

VARIABLES
  up,      \* the uploadFile call: its position, what it has requested and
           \* what it was answered
  utime,   \* util.unixTimestamp() during the upload
  uticks   \* clock advances so far

uploadVars == <<up, utime, uticks>>

\* Two runs of the transcoders on the same events.
Runs == {1, 2}

VARIABLES
  events,  \* the payloads both runs are given, in order
  runs     \* run -> when it started, how far it is and what its buffered
           \* and its streaming transcoder have built

replayVars == <<events, runs>>

VARIABLES
  messages,  \* the history handed to messagesPrepare
  refs,      \* whether uploads gave attachments (refs.length > 0)
  outgoing,  \* what messagesPrepare built: text, JSON, payload bytes, frame
  rest,      \* the bytes of the frame not yet handed to a decoder
  dec        \* that decoder: chunk, temp, the payloads it emitted and the
             \* sizes of the pieces it was given

prepVars == <<messages, refs, outgoing, rest, dec>>

vars == <<leaseVars, streamVars, pipeVars, uploadVars, replayVars, prepVars>>

\* ------------------------------------------------------------ lease store

NoEntry == [kind |-> "none", id |-> 0, refreshTime |-> 0]

\* The object requestToken's inner function returns (chat.ts:80-85); id
\* stands for the accessToken/refreshToken/deviceID the provider issued.
NewLease(id, t) ==
  [kind |-> "lease", id |-> id, refreshTime |-> t + ACCESS_TOKEN_EXPIRES]

\* The Error the inner function throws; it has no refreshTime, accessToken,
\* refreshToken or deviceId property.
ErrorObject(id) == [kind |-> "error", id |-> id, refreshTime |-> 0]

\* !result of chat.ts:119: only a missing entry is falsy.
Truthy(v) == v.kind # "none"

\* util.unixTimestamp() > result.refreshTime (chat.ts:123); the comparison
\* with the undefined refreshTime of an Error object is false.
Expired(v, t) == v.kind = "lease" /\ t > v.refreshTime

\* result.accessToken + "..." + result.refreshToken and result.deviceId
\* (chat.ts:127-130); a property the object lacks reads as undefined.
Token(v) ==
  IF v.kind = "lease"
  THEN [genuine |-> TRUE, access |-> v.id, refresh |-> v.id, deviceId |-> v.id]
  ELSE [genuine |-> FALSE, access |-> 0, refresh |-> 0, deviceId |-> 0]

NoQueue == [on |-> FALSE, q |-> <<>>]

\* The record of one acquireToken call: what it found cached (valid: a lease
\* that had not expired; seenId: that lease), the exchange it depends on (ex,
\* 0 for none), the line it called requestToken from (stage), the value
\* requestToken handed it (res) and how it ended (out, token).
NoCall ==
  [key |-> "rt1", valid |-> FALSE, seenId |-> 0, ex |-> 0, stage |-> 0,
   res |-> NoEntry, out |-> "none", token |-> Token(NoEntry)]

NoRequest == [key |-> "none", op |-> "none"]

\* No promise continuation is pending: the microtask queue is empty.
NoMicrotask == \A p \in Procs : pc[p] \notin {"resumeInit", "resumeJoin"}

InFlight(k) == {i \in DOMAIN exch : exch[i].key = k /\ exch[i].state = "flying"}

\* requestToken's guard (chat.ts:55): join the queue of the exchange in flight.
JoinsQueue(k) == accessTokenRequestQueueMap[k].on

\* requestToken up to its first await (chat.ts:54-74), called by p at `stage`
\* (1: from chat.ts:120, 2: from chat.ts:124).
RequestToken(p, k, stage, c) ==
  IF JoinsQueue(k)
  THEN /\ accessTokenRequestQueueMap' =
            [accessTokenRequestQueueMap EXCEPT ![k].q = Append(@, p)]
       /\ exch' = exch
       /\ pc' = [pc EXCEPT ![p] = "queued"]
       /\ call' = [call EXCEPT ![p] =
            [c EXCEPT !.stage = stage, !.ex = CHOOSE i \in DOMAIN exch :
               i \in InFlight(k) /\ \A j \in InFlight(k) : j <= i]]
  ELSE /\ accessTokenRequestQueueMap' =
            [accessTokenRequestQueueMap EXCEPT ![k] = [on |-> TRUE, q |-> <<>>]]
       /\ exch' = Append(exch, [key |-> k, state |-> "flying", by |-> p, at |-> 0])
       /\ pc' = [pc EXCEPT ![p] = "refreshing"]
       /\ call' = [call EXCEPT ![p] =
            [c EXCEPT !.stage = stage, !.ex = Len(exch) + 1]]

\* acquireToken up to its first await (chat.ts:117-126).
Acquire(p, k) ==
  /\ NoMicrotask
  /\ pc[p] = "idle"
  /\ calls < MaxCalls
  /\ calls' = calls + 1
  /\ LET result == accessTokenMap[k]
         c == [NoCall EXCEPT
                 !.key = k,
                 !.valid = result.kind = "lease" /\ now <= result.refreshTime,
                 !.seenId = IF result.kind = "lease" THEN result.id ELSE 0]
     IN IF ~Truthy(result)
        THEN RequestToken(p, k, 1, c)
        ELSE IF Expired(result, now)
        THEN RequestToken(p, k, 2, c)
        ELSE /\ pc' = [pc EXCEPT ![p] = "request"]
             /\ call' = [call EXCEPT ![p] =
                  [c EXCEPT !.out = "returned", !.token = Token(result)]]
             /\ UNCHANGED <<accessTokenRequestQueueMap, exch>>
  /\ rejected' = NoRequest
  /\ UNCHANGED <<accessTokenMap, now, ticks>>

\* A faulty eviction: it clears the whole map.
EvictAll(map, k, code) ==
  IF code = "unauthenticated" THEN [j \in Keys |-> NoEntry] ELSE map

\* checkResult's eviction (chat.ts:457).
Evict(map, k, code) ==
  IF code = "unauthenticated" THEN [map EXCEPT ![k] = NoEntry] ELSE map

\* The RegisterDevice response arrives (chat.ts:75-105): the inner function
\* builds the lease or throws, then/catch hands the result to every queued
\* resolver and deletes the queue.  The continuations of the initiator and of
\* the queued callers are now pending microtasks.
RefreshResponse(i, outcome) ==
  /\ NoMicrotask
  /\ i \in DOMAIN exch /\ exch[i].state = "flying"
  /\ LET k == exch[i].key
         result == IF outcome = "ok" THEN NewLease(i, now) ELSE ErrorObject(i)
         waiters == accessTokenRequestQueueMap[k].q
         woken == {waiters[n] : n \in DOMAIN waiters}
     IN /\ exch' = [exch EXCEPT ![i] =
             [key |-> k, state |-> outcome, by |-> 0,
              at |-> IF outcome = "ok" THEN now ELSE 0]]
        /\ accessTokenMap' = Evict(accessTokenMap, k, outcome)
        /\ accessTokenRequestQueueMap' =
             [accessTokenRequestQueueMap EXCEPT ![k] = NoQueue]
        /\ pc' = [p \in Procs |->
                    IF p = exch[i].by THEN "resumeInit"
                    ELSE IF p \in woken THEN "resumeJoin" ELSE pc[p]]
        /\ call' = [p \in Procs |->
                    IF p = exch[i].by \/ p \in woken
                    THEN [call[p] EXCEPT !.res = result] ELSE call[p]]
        /\ rejected' = NoRequest
  /\ UNCHANGED <<now, ticks, calls>>

\* requestToken's last lines for the caller that started the exchange
\* (chat.ts:106-107): an Error result is thrown.
InitiatorThrows(result) == result.kind = "error"

\* requestToken's return for a caller that had joined the queue
\* (chat.ts:56-58): the promise resolves with whatever the resolver was given.
JoinerThrows(result) == FALSE

\* The continuation of acquireToken after `await requestToken`
\* (chat.ts:120-131).
Resume(p) ==
  /\ pc[p] \in {"resumeInit", "resumeJoin"}
  /\ LET c == call[p]
         k == c.key
         throws == IF pc[p] = "resumeInit" THEN InitiatorThrows(c.res)
                   ELSE JoinerThrows(c.res)
     IN IF throws
        THEN /\ pc' = [pc EXCEPT ![p] = "idle"]
             /\ call' = [call EXCEPT ![p] =
                  [c EXCEPT !.out = "threw", !.res = NoEntry]]
             /\ UNCHANGED <<accessTokenMap, accessTokenRequestQueueMap, exch>>
        ELSE /\ accessTokenMap' = [accessTokenMap EXCEPT ![k] = c.res]
             /\ IF c.stage = 1 /\ Expired(c.res, now)
                THEN RequestToken(p, k, 2, [c EXCEPT !.res = NoEntry])
                ELSE /\ pc' = [pc EXCEPT ![p] = "request"]
                     /\ call' = [call EXCEPT ![p] =
                          [c EXCEPT !.out = "returned", !.res = NoEntry,
                                    !.token = Token(c.res)]]
                     /\ UNCHANGED <<accessTokenRequestQueueMap, exch>>
  /\ rejected' = NoRequest
  /\ UNCHANGED <<now, ticks, calls>>

\* Whether the response to request `op` goes through checkResult: every
\* request does (chat.ts:158, 187, 806, 827) except SendMessageStream, whose
\* response is handed to receiveStream / createTransStream as a byte stream
\* (chat.ts:222-242, 302-330); their parsers format an error event into the
\* answer and never touch accessTokenMap.
ChecksResult(op) == op # "send"

\* The provider answers the request `op` that p made with its token.  Nothing
\* in acquireToken depends on the request it is called for, so the request is
\* named here, where its response is handled.
Answer(p, op, ans) ==
  /\ NoMicrotask
  /\ pc[p] = "request"
  /\ pc' = [pc EXCEPT ![p] = "idle"]
  /\ accessTokenMap' =
       IF ChecksResult(op)
       THEN Evict(accessTokenMap, call[p].key, ans)
       ELSE accessTokenMap
  /\ rejected' = IF ans = "unauthenticated"
                 THEN [key |-> call[p].key, op |-> op] ELSE NoRequest
  /\ call' = [call EXCEPT ![p] = NoCall]
  /\ UNCHANGED <<accessTokenRequestQueueMap, exch, now, ticks, calls>>

\* Time passes: one second, or a whole lease lifetime.
Tick(d) ==
  /\ NoMicrotask
  /\ ticks < MaxTicks
  /\ ticks' = ticks + 1
  /\ now' = now + d
  /\ rejected' = NoRequest
  /\ UNCHANGED <<accessTokenMap, accessTokenRequestQueueMap, exch, pc, call,
                 calls>>

\* ------------------------------------------------- frames and payloads

\* A byte is a number; a payload is a sequence of bytes.  The payloads of the
\* model stand for the JSON texts of the provider's events: the first byte
\* names the event's field, the rest is its value.
Tag == [textEvent |-> 1, pipelineEvent |-> 2, doneEvent |-> 3, error |-> 4]

\* The payloads the provider sends: two texts, a textEvent with empty text,
\* a search event with one result, doneEvent, an error event, and a payload
\* that is not JSON.
Payloads == {<<1, 6>>, <<1, 7>>, <<1>>, <<2, 8>>, <<3>>, <<4, 9>>, <<5>>}

\* The payloads that are JSON texts; any other sequence of bytes (the empty
\* one, a piece of a frame) is not.
JSONTexts == Payloads \ {<<5>>}

\* _.attempt(() => JSON.parse(buffer.toString())) and the field tests of the
\* parsers (chat.ts:487-508, 574-640): which event the payload is, if it is
\* JSON at all.
JSONParse(payload) ==
  IF payload \notin JSONTexts THEN [ok |-> FALSE, type |-> "none", body |-> <<>>]
  ELSE IF payload[1] = Tag.textEvent
    THEN [ok |-> TRUE, type |-> "textEvent", body |-> Tail(payload)]
  ELSE IF payload[1] = Tag.pipelineEvent
    THEN [ok |-> TRUE, type |-> "pipelineEvent", body |-> Tail(payload)]
  ELSE IF payload[1] = Tag.doneEvent
    THEN [ok |-> TRUE, type |-> "doneEvent", body |-> <<>>]
  ELSE [ok |-> TRUE, type |-> "error", body |-> Tail(payload)]

\* dataView.setUint32(1, data.length): four bytes, big-endian (chat.ts:704).
UInt32BE(n) ==
  <<(n \div 16777216) % 256, (n \div 65536) % 256, (n \div 256) % 256, n % 256>>

\* A faulty wrapData: the length written counts the header as well.
WrapDataWithHeader(payload) ==
  <<0>> \o UInt32BE(Len(payload) + 5) \o payload

\* wrapData (chat.ts:694-706): flag 0x00, length, payload.
WrapData(payload) == <<0>> \o UInt32BE(Len(payload)) \o payload

RECURSIVE Serialize(_)
\* The response body: the concatenation of the frames.
Serialize(fs) ==
  IF fs = <<>> THEN <<>> ELSE WrapData(Head(fs)) \o Serialize(Tail(fs))

\* chunk.readUint32BE(1) (chat.ts:523, 669); called with at least 5 bytes.
ReadUint32BE(buf) ==
  buf[2] * 16777216 + buf[3] * 65536 + buf[4] * 256 + buf[5]

\* buffer.subarray(start, end) with 0-based start and exclusive end, clamped
\* to the buffer as Buffer.subarray clamps.
Subarray(buf, start, end) ==
  LET e == IF end > Len(buf) THEN Len(buf) ELSE end
  IN IF start >= e THEN <<>> ELSE SubSeq(buf, start + 1, e)

\* The data handler up to the call of the parser (chat.ts:517-528, 663-674):
\* the new chunk and temp, and the payload handed to the parser, if any.
OnData(c, t, buffer) ==
  LET joined == t \o c \o buffer
  IN IF Len(joined) < 5
     THEN [chunk |-> joined, temp |-> t, hand |-> <<>>]
     ELSE LET chunkSize == ReadUint32BE(joined)
              t2 == Subarray(joined, chunkSize + 5, Len(joined))
              c2 == Subarray(joined, 0, chunkSize + 5)
          IN IF Len(c2) < chunkSize + 5
             THEN [chunk |-> c2, temp |-> t2, hand |-> <<>>]
             ELSE [chunk |-> c2, temp |-> t2,
                   hand |-> <<Subarray(c2, 5, Len(c2))>>]

\* ------------------------------------------------------ buffered transcoder

ConvId == "conv"

Item(k, v) == [k |-> k, v |-> v]

\* The completion object receiveStream builds (chat.ts:471-484); content is a
\* sequence of pieces of text.
NewData ==
  [id |-> ConvId, object |-> "chat.completion", role |-> "assistant",
   content |-> <<>>, finish_reason |-> "stop",
   usage |-> [prompt_tokens |-> 1, completion_tokens |-> 1, total_tokens |-> 2]]

\* The service-unavailable notice with the event's code and message.
Notice(body) == <<Item("notice", body)>>

RECURSIVE RefLines(_)
\* results.reduce((str, v) => str + `${v.title}(${v.url})\n`, "")
\* (chat.ts:499-504).
RefLines(results) ==
  IF results = <<>> THEN <<>>
  ELSE <<Item("ref", <<Head(results)>>), Item("nl", <<>>)>>
         \o RefLines(Tail(results))

\* refContent.replace(/\n$/, "") (chat.ts:510).
TrimNewline(str) ==
  IF str # <<>> /\ str[Len(str)].k = "nl" THEN SubSeq(str, 1, Len(str) - 1)
  ELSE str

\* "\n\n搜索结果来自：\n"
RefHeader == <<Item("refheader", <<>>)>>

\* A faulty receiveStream parser: the text branch assigns the text to the
\* answer (=) where the code appends it (+=).
ParserBufferedAssigns(content, ref, payload) ==
  LET result == JSONParse(payload)
      same == [threw |-> FALSE, content |-> content, ref |-> ref]
  IN IF ~result.ok THEN [same EXCEPT !.threw = TRUE]
     ELSE IF result.type = "error" /\ result.body # <<>>
       THEN [same EXCEPT !.content = content \o Notice(result.body)]
     ELSE IF result.type = "pipelineEvent"
       THEN [same EXCEPT !.ref = RefLines(result.body)]
     ELSE IF result.type = "textEvent" /\ result.body # <<>>
       THEN [same EXCEPT !.content = <<Item("text", result.body)>>]
     ELSE IF result.type = "doneEvent"
       THEN [same EXCEPT !.content =
               content \o (IF ref # <<>> THEN RefHeader \o TrimNewline(ref)
                           ELSE <<>>)]
     ELSE same

\* A faulty parser: an error event fails the completion instead of being
\* written into the answer.
ParserBufferedErrorThrows(content, ref, payload) ==
  LET result == JSONParse(payload)
      same == [threw |-> FALSE, content |-> content, ref |-> ref]
  IN IF ~result.ok THEN [same EXCEPT !.threw = TRUE]
     ELSE IF result.type = "error" /\ result.body # <<>>
       THEN [same EXCEPT !.threw = TRUE]
     ELSE IF result.type = "pipelineEvent"
       THEN [same EXCEPT !.ref = RefLines(result.body)]
     ELSE IF result.type = "textEvent" /\ result.body # <<>>
       THEN [same EXCEPT !.content = content \o <<Item("text", result.body)>>]
     ELSE IF result.type = "doneEvent"
       THEN [same EXCEPT !.content =
               content \o (IF ref # <<>> THEN RefHeader \o TrimNewline(ref)
                           ELSE <<>>)]
     ELSE same

\* receiveStream's parser (chat.ts:486-513) on one payload: whether it threw,
\* and the content and side buffer it leaves.
ParserBuffered(content, ref, payload) ==
  LET result == JSONParse(payload)
      same == [threw |-> FALSE, content |-> content, ref |-> ref]
  IN IF ~result.ok THEN [same EXCEPT !.threw = TRUE]
     ELSE IF result.type = "error" /\ result.body # <<>>
       THEN [same EXCEPT !.content = content \o Notice(result.body)]
     ELSE IF result.type = "pipelineEvent"
       THEN [same EXCEPT !.ref = RefLines(result.body)]
     ELSE IF result.type = "textEvent" /\ result.body # <<>>
       THEN [same EXCEPT !.content = content \o <<Item("text", result.body)>>]
     ELSE IF result.type = "doneEvent"
       THEN [same EXCEPT !.content =
               content \o (IF ref # <<>> THEN RefHeader \o TrimNewline(ref)
                           ELSE <<>>)]
     ELSE same

\* ----------------------------------------------------- streaming transcoder

\* The PassThrough: the writes it accepted (out), whether end() was called,
\* whether it is closed, and the write and end calls made after end().
NewTransStream ==
  [out |-> <<>>, ended |-> FALSE, closed |-> FALSE, late |-> 0, gone |-> FALSE]

\* "data: [DONE]\n\n"
Sentinel == Item("DONE", <<>>)

\* A faulty write: transStream.write(data) without the test of
\* transStream.closed.
WriteUnguarded(ts, d) ==
  IF ts.ended
    THEN [ts EXCEPT !.late = IF @ < 2 THEN @ + 1 ELSE @, !.closed = TRUE]
  ELSE [ts EXCEPT !.out = Append(@, d)]

\* !transStream.closed && transStream.write(data).  A write after end() is
\* refused with ERR_STREAM_WRITE_AFTER_END and destroys the stream.
Write(ts, d) ==
  IF ts.closed THEN ts
  ELSE IF ts.ended
    THEN [ts EXCEPT !.late = IF @ < 2 THEN @ + 1 ELSE @, !.closed = TRUE]
  ELSE [ts EXCEPT !.out = Append(@, d)]

\* !transStream.closed && transStream.end("data: [DONE]\n\n").
End(ts) ==
  IF ts.closed THEN ts
  ELSE IF ts.ended
    THEN [ts EXCEPT !.late = IF @ < 2 THEN @ + 1 ELSE @, !.closed = TRUE]
  ELSE [ts EXCEPT !.out = Append(@, Sentinel), !.ended = TRUE]

\* The chunks createTransStream writes (chat.ts:559-571, 578-593, 608-622,
\* 626-638, 641-654).
RoleChunk == Item("role", <<>>)
ErrorChunk(body) == Item("error-stop", body)
SearchChunk(results) == Item("search", results)
TextChunk(text) == Item("text", text)
StopChunk == Item("stop-usage-1-1-2", <<>>)

\* A faulty createTransStream parser: on an error event it writes the notice
\* but does not end the stream.
ParserStreamErrorNoEnd(ts, payload) ==
  LET result == JSONParse(payload)
      same == [threw |-> FALSE, ts |-> ts, ended |-> FALSE]
  IN IF ~result.ok THEN [same EXCEPT !.threw = TRUE]
     ELSE IF result.type = "error" /\ result.body # <<>>
       THEN [same EXCEPT !.ts = Write(ts, ErrorChunk(result.body))]
     ELSE IF result.type = "pipelineEvent"
       THEN [same EXCEPT !.ts = Write(ts, SearchChunk(result.body))]
     ELSE IF result.type = "textEvent" /\ result.body # <<>>
       THEN [same EXCEPT !.ts = Write(ts, TextChunk(result.body))]
     ELSE IF result.type = "doneEvent"
       THEN [same EXCEPT !.ts = End(Write(ts, StopChunk)), !.ended = TRUE]
     ELSE same

\* A faulty createTransStream parser: on doneEvent it ends the stream
\* without the terminal chunk.
ParserStreamNoStopChunk(ts, payload) ==
  LET result == JSONParse(payload)
      same == [threw |-> FALSE, ts |-> ts, ended |-> FALSE]
  IN IF ~result.ok THEN [same EXCEPT !.threw = TRUE]
     ELSE IF result.type = "error" /\ result.body # <<>>
       THEN [same EXCEPT !.ts = End(Write(ts, ErrorChunk(result.body))),
                         !.ended = TRUE]
     ELSE IF result.type = "pipelineEvent"
       THEN [same EXCEPT !.ts = Write(ts, SearchChunk(result.body))]
     ELSE IF result.type = "textEvent" /\ result.body # <<>>
       THEN [same EXCEPT !.ts = Write(ts, TextChunk(result.body))]
     ELSE IF result.type = "doneEvent"
       THEN [same EXCEPT !.ts = End(ts), !.ended = TRUE]
     ELSE same

\* createTransStream's parser (chat.ts:573-659) on one payload: whether it
\* threw, the stream it leaves and whether it called endCallback.
ParserStream(ts, payload) ==
  LET result == JSONParse(payload)
      same == [threw |-> FALSE, ts |-> ts, ended |-> FALSE]
  IN IF ~result.ok THEN [same EXCEPT !.threw = TRUE]
     ELSE IF result.type = "error" /\ result.body # <<>>
       THEN [same EXCEPT !.ts = End(Write(ts, ErrorChunk(result.body))),
                         !.ended = TRUE]
     ELSE IF result.type = "pipelineEvent"
       THEN [same EXCEPT !.ts = Write(ts, SearchChunk(result.body))]
     ELSE IF result.type = "textEvent" /\ result.body # <<>>
       THEN [same EXCEPT !.ts = Write(ts, TextChunk(result.body))]
     ELSE IF result.type = "doneEvent"
       THEN [same EXCEPT !.ts = End(Write(ts, StopChunk)), !.ended = TRUE]
     ELSE same

\* -------------------------------------------------------- stream handlers

NoAbort == [on |-> FALSE, parsed |-> 0, content |-> <<>>, chunks |-> <<>>]

\* The chunks written for events: the writes without the sentinel.
Chunks(out) == SelectSeq(out, LAMBDA d : d # Sentinel)

\* An exception leaves the data listener: the listener stays registered and
\* nothing in chat.ts catches it.  The process either ends (no handler for
\* uncaught exceptions) or goes on (a handler logs it).
SurvivesThrow == BOOLEAN

\* The byte offsets, counted from the end of the response, at which a frame
\* starts.
Boundaries ==
  {Len(Serialize(SubSeq(frames, j, Len(frames)))) : j \in 1..(Len(frames) + 1)}

\* Whether the network may cut the response after the next n bytes.
CutAllowed(n) ==
  Len(frames) <= MaxCutFrames \/ (Len(wire) - n) \in Boundaries

\* stream.on("data", ...) of receiveStream (chat.ts:517-531) and of
\* createTransStream (chat.ts:663-677) for the next n bytes of the response.
Data(n) ==
  /\ alive /\ upstream = "open"
  /\ n \in 1..Len(wire)
  /\ CutAllowed(n)
  /\ wire' = SubSeq(wire, n + 1, Len(wire))
  /\ LET d == OnData(chunk, temp, SubSeq(wire, 1, n))
     IN /\ temp' = d.temp
        /\ IF d.hand = <<>>
           THEN /\ chunk' = d.chunk
                /\ UNCHANGED <<data, refContent, transStream, endCalls, alive,
                               parsed, abort>>
           ELSE LET payload == d.hand[1]
                    b == ParserBuffered(data.content, refContent, payload)
                    s == ParserStream(transStream, payload)
                    threw == IF mode = "buffered" THEN b.threw ELSE s.threw
                IN /\ parsed' = Append(parsed, payload)
                   /\ chunk' = IF threw THEN d.chunk ELSE <<>>
                   /\ IF mode = "buffered"
                      THEN /\ data' = [data EXCEPT !.content = b.content]
                           /\ refContent' = b.ref
                           /\ UNCHANGED <<transStream, endCalls>>
                      ELSE /\ transStream' = s.ts
                           /\ endCalls' = IF s.ended /\ endCalls < 2
                                          THEN endCalls + 1 ELSE endCalls
                           /\ UNCHANGED <<data, refContent>>
                   /\ IF threw
                      THEN /\ alive' \in SurvivesThrow
                           /\ abort' = IF abort.on THEN abort
                                       ELSE [on |-> TRUE, parsed |-> Len(parsed) + 1,
                                             content |-> data.content,
                                             chunks |-> Chunks(transStream.out)]
                      ELSE UNCHANGED <<alive, abort>>
  /\ UNCHANGED <<mode, frames, upstream, promise>>

\* stream.once("error", ...) (chat.ts:532, 678-681).
UpstreamError ==
  /\ alive /\ upstream = "open"
  /\ upstream' = "errored"
  /\ IF mode = "buffered"
     THEN /\ promise' = IF promise = "pending" THEN "rejected" ELSE promise
          /\ UNCHANGED transStream
     ELSE /\ transStream' = End(transStream)
          /\ UNCHANGED promise
  /\ UNCHANGED <<mode, frames, wire, chunk, temp, data, refContent, endCalls,
                 alive, parsed, abort>>

\* stream.once("close", ...) (chat.ts:533, 682-685): after the last byte, or
\* after an error.
UpstreamClose ==
  /\ alive
  /\ \/ upstream = "open" /\ wire = <<>>
     \/ upstream = "errored"
  /\ upstream' = "closed"
  /\ IF mode = "buffered"
     THEN /\ promise' = IF promise = "pending" THEN "resolved" ELSE promise
          /\ UNCHANGED transStream
     ELSE /\ transStream' = End(transStream)
          /\ UNCHANGED promise
  /\ UNCHANGED <<mode, frames, wire, chunk, temp, data, refContent, endCalls,
                 alive, parsed, abort>>

\* The PassThrough closes by itself once it has ended and its consumer has
\* read it to the end.
TransStreamCloses ==
  /\ alive /\ mode = "streaming"
  /\ transStream.ended /\ ~transStream.closed
  /\ transStream' = [transStream EXCEPT !.closed = TRUE]
  /\ UNCHANGED <<mode, frames, wire, upstream, chunk, temp, data, refContent,
                 promise, endCalls, alive, parsed, abort>>

\* The consumer of the streaming result goes away: the PassThrough is
\* destroyed.
ConsumerGone ==
  /\ alive /\ mode = "streaming"
  /\ ~transStream.closed
  /\ transStream' = [transStream EXCEPT !.closed = TRUE, !.gone = TRUE]
  /\ UNCHANGED <<mode, frames, wire, upstream, chunk, temp, data, refContent,
                 promise, endCalls, alive, parsed, abort>>

\* ------------------------------------------------ completion pipeline

\* The retry bounds of the builds checked: the configured one and up to
\* MaxRetryBound, so that the retry branch (chat.ts:252-265) is taken.
RetryBounds == MAX_RETRY_COUNT..MaxRetryBound

\* No createCompletion / createCompletionStream call.  uploaded says that the
\* uploads of the attempt have completed; stream is the response stream of
\* SendMessageStream; endCalls counts invocations of endCallback.
NoReq ==
  [mode |-> "none", pc |-> "idle", retryCount |-> 0, attempts |-> 0,
   uploaded |-> FALSE,
   convId |-> 0, stream |-> "none", endCalls |-> 0, delay |-> 0,
   thrown |-> [stage |-> "none", attempt |-> 0]]

\* A conversation as CreateChat has just created it for an attempt of a
\* request: the SendMessageStream requests made with its id, the DelChat
\* requests issued for it and the state of the last of them.
NewConv(r, attempt) ==
  [by |-> r, attempt |-> attempt, sends |-> 0, sentBy |-> {},
   issued |-> 0, removal |-> "none"]

\* A faulty catch: it retries while retryCount <= MAX_RETRY_COUNT.
CatchOnceMore(rec, stage) ==
  IF rec.retryCount <= maxRetry
  THEN [rec EXCEPT !.pc = "waiting", !.delay = RETRY_DELAY,
                   !.thrown = [stage |-> stage, attempt |-> rec.attempts]]
  ELSE [rec EXCEPT !.pc = "threw",
                   !.thrown = [stage |-> stage, attempt |-> rec.attempts]]

\* .catch((err) => ...) of the attempt (chat.ts:251-267, 331-347): a retry
\* after RETRY_DELAY while retryCount < MAX_RETRY_COUNT, else throw err.
\* thrown is err and the attempt it came from.
Catch(rec, stage) ==
  IF rec.retryCount < maxRetry
  THEN [rec EXCEPT !.pc = "waiting", !.delay = RETRY_DELAY,
                   !.thrown = [stage |-> stage, attempt |-> rec.attempts]]
  ELSE [rec EXCEPT !.pc = "threw",
                   !.thrown = [stage |-> stage, attempt |-> rec.attempts]]

\* removeConversation(convId, refreshToken).catch(console.error)
\* (chat.ts:248, 327-329): the DelChat request is issued and not awaited.
IssueRemoval(cs, c) ==
  [cs EXCEPT ![c].issued = IF @ < 2 THEN @ + 1 ELSE @,
             ![c].removal = "pending"]

\* A faulty choice of the conversation id: the id of the conversation
\* created last, as a variable shared by all requests would hold it.
SendConvShared(r) == Len(convs)

\* The conversation id an attempt sends its message with: const convId
\* (chat.ts:218, 298).
SendConv(r) == req[r].convId

\* The decoder buffer and accumulator the handlers of a request work on:
\* chunk, temp, data, refContent, transStream are locals of receiveStream /
\* createTransStream (chat.ts:471-515, 556-661).
Buf(r) == r

\* A faulty start of the attempt: createConversation is called before the
\* uploads.
CreateCompletionConvFirst(r, m) ==
  /\ req[r].pc = "idle"
  /\ req' = [req EXCEPT ![r] = [NoReq EXCEPT !.mode = m, !.pc = "creating",
                                             !.attempts = 1]]
  /\ UNCHANGED <<maxRetry, convs, writers>>

\* createCompletion / createCompletionStream is called (chat.ts:199, 279);
\* the uploads are started first (chat.ts:210-215, 290-295).
CreateCompletion(r, m) ==
  /\ req[r].pc = "idle"
  /\ req' = [req EXCEPT ![r] = [NoReq EXCEPT !.mode = m, !.pc = "uploading",
                                             !.attempts = 1]]
  /\ UNCHANGED <<maxRetry, convs, writers>>

\* Every uploadFile of the attempt has returned, or there was nothing to
\* upload (chat.ts:210-215, 290-295); createConversation is called.
UploadsDone(r) ==
  /\ req[r].pc = "uploading"
  /\ req' = [req EXCEPT ![r].pc = "creating", ![r].uploaded = TRUE]
  /\ UNCHANGED <<maxRetry, convs, writers>>

\* createConversation returns the chatId of a new conversation
\* (chat.ts:158-159, 218, 298).
CreateChatAnswers(r) ==
  /\ req[r].pc = "creating"
  /\ convs' = Append(convs, NewConv(r, req[r].attempts))
  /\ req' = [req EXCEPT ![r].pc = "sending", ![r].convId = Len(convs) + 1]
  /\ UNCHANGED <<maxRetry, writers>>

\* A faulty attempt: the uploads are awaited only before the send, so that
\* their failure surfaces after createConversation has returned.
FailsUploadLate(r, stage) ==
  /\ \/ req[r].pc \in {"uploading", "sending"} /\ stage = "upload"
     \/ req[r].pc = "creating" /\ stage \in {"token", "create"}
     \/ req[r].pc = "sending" /\ stage \in {"token", "send"}
  /\ req' = [req EXCEPT ![r] = Catch(req[r], stage)]
  /\ UNCHANGED <<maxRetry, convs, writers>>

\* An await of the attempt rejects: uploadFile, acquireToken or
\* createConversation before the conversation exists (chat.ts:212-218),
\* acquireToken or the SendMessageStream request after (chat.ts:221-238).
Fails(r, stage) ==
  /\ \/ req[r].pc = "uploading" /\ stage = "upload"
     \/ req[r].pc = "creating" /\ stage \in {"token", "create"}
     \/ req[r].pc = "sending" /\ stage \in {"token", "send"}
  /\ req' = [req EXCEPT ![r] = Catch(req[r], stage)]
  /\ UNCHANGED <<maxRetry, convs, writers>>

\* The SendMessageStream request is answered with a response stream
\* (chat.ts:222-242, 302-322): receiveStream awaits it, createTransStream
\* returns the output stream at once.
SendAnswers(r) ==
  /\ req[r].pc = "sending"
  /\ convs' = [convs EXCEPT ![SendConv(r)].sends = @ + 1,
                            ![SendConv(r)].sentBy =
                               @ \cup {<<r, req[r].attempts>>}]
  /\ req' = [req EXCEPT ![r].stream = "open",
                        ![r].pc = IF req[r].mode = "buffered"
                                  THEN "receiving" ELSE "returned"]
  /\ UNCHANGED <<maxRetry, writers>>

\* A data event of the response of r that carries no terminal event
\* (chat.ts:517-531, 663-677).
StreamData(r) ==
  /\ req[r].stream = "open"
  /\ writers' = [writers EXCEPT ![Buf(r)] = @ \cup {r}]
  /\ UNCHANGED <<maxRetry, req, convs>>

\* A data event whose frame is a DoneEvent or an ErrorEvent.  The streaming
\* parser calls endCallback (chat.ts:596, 657), which issues the deletion;
\* the buffered parser only changes the answer.
TerminalEvent(r) ==
  /\ req[r].stream = "open" /\ req[r].mode = "streaming"
  /\ req[r].endCalls < 2
  /\ writers' = [writers EXCEPT ![Buf(r)] = @ \cup {r}]
  /\ req' = [req EXCEPT ![r].endCalls = @ + 1]
  /\ convs' = IssueRemoval(convs, req[r].convId)
  /\ UNCHANGED maxRetry

\* The response stream emits 'error': receiveStream's promise rejects
\* (chat.ts:532) and the attempt fails; createTransStream ends the output
\* (chat.ts:678-681).
StreamError(r) ==
  /\ req[r].stream = "open"
  /\ req' = [req EXCEPT ![r] =
               IF req[r].pc = "receiving"
               THEN Catch([req[r] EXCEPT !.stream = "errored"], "stream")
               ELSE [req[r] EXCEPT !.stream = "errored"]]
  /\ UNCHANGED <<maxRetry, convs, writers>>

\* The response stream emits 'close': receiveStream's promise resolves
\* (chat.ts:533), createCompletion issues the deletion and returns the answer
\* (chat.ts:242-250); createTransStream ends the output (chat.ts:682-685).
StreamClose(r) ==
  /\ req[r].stream \in {"open", "errored"}
  /\ IF req[r].pc = "receiving"
     THEN /\ req' = [req EXCEPT ![r].stream = "closed", ![r].pc = "returned"]
          /\ convs' = IssueRemoval(convs, req[r].convId)
     ELSE /\ req' = [req EXCEPT ![r].stream = "closed"]
          /\ UNCHANGED convs
  /\ UNCHANGED <<maxRetry, writers>>

\* The timer of RETRY_DELAY fires and the whole pipeline is run again with
\* retryCount + 1 (chat.ts:256-263, 336-343).
RetryTimer(r) ==
  /\ req[r].pc = "waiting"
  /\ req' = [req EXCEPT ![r] =
               [NoReq EXCEPT !.mode = req[r].mode, !.pc = "uploading",
                             !.retryCount = req[r].retryCount + 1,
                             !.attempts = req[r].attempts + 1]]
  /\ UNCHANGED <<maxRetry, convs, writers>>

\* A faulty deletion: its failure is not caught but fails the request.
RemovalAnswersUncaught(c, ok) ==
  /\ c \in DOMAIN convs
  /\ convs[c].removal = "pending"
  /\ convs' = [convs EXCEPT ![c].removal = IF ok THEN "ok" ELSE "failed"]
  /\ req' = IF ok THEN req
            ELSE [req EXCEPT ![convs[c].by].pc = "threw",
                             ![convs[c].by].thrown =
                                [stage |-> "remove",
                                 attempt |-> req[convs[c].by].attempts]]
  /\ UNCHANGED <<maxRetry, writers>>

\* The DelChat request of removeConversation is answered, or fails; a
\* failure is caught and logged (chat.ts:248, 327-329).
RemovalAnswers(c, ok) ==
  /\ c \in DOMAIN convs
  /\ convs[c].removal = "pending"
  /\ convs' = [convs EXCEPT ![c].removal = IF ok THEN "ok" ELSE "failed"]
  /\ UNCHANGED <<maxRetry, req, writers>>

\* ------------------------------------------------------------ uploadFile

\* No content-length header in the answer to the probe.
NoLength == -1

\* What the HEAD probe may be answered: a status and a content length.
ProbeStatuses == {200, 404}
ProbeLengths == {NoLength, FILE_MAX_SIZE, FILE_MAX_SIZE + 1}

\* [12, 22, 59, 404] (chat.ts:829), and the statuses of the model: one that
\* is not a failure and two that are.
FailureStatuses == {12, 22, 59, 404}
FileStatuses == {1, 12, 404}

NoProbe == [status |-> 0, len |-> NoLength]
NoPoll == [fileStatus |-> 0, needFurtherCall |-> FALSE, at |-> 0]

\* No uploadFile call.  downloads, transfers and polls count the GET of the
\* file, the PUT to storage and the GetFileStatus requests issued.
NoUpload ==
  [pc |-> "idle", inline |-> FALSE, probe |-> NoProbe, downloads |-> 0,
   transfers |-> 0, polls |-> 0, startTime |-> 0, last |-> NoPoll,
   error |-> "none"]

\* A faulty size check: fileSize >= FILE_MAX_SIZE.
CheckFileUrlAtLeast(status, len) ==
  IF status >= 400 THEN "API_FILE_URL_INVALID"
  ELSE IF len # NoLength /\ len >= FILE_MAX_SIZE THEN "API_FILE_EXECEEDS_SIZE"
  ELSE "ok"

\* checkFileUrl after the probe was answered (chat.ts:730-743).
CheckFileUrl(status, len) ==
  IF status >= 400 THEN "API_FILE_URL_INVALID"
  ELSE IF len # NoLength /\ len > FILE_MAX_SIZE THEN "API_FILE_EXECEEDS_SIZE"
  ELSE "ok"

\* A faulty loop body: the elapsed time is tested before the status.
PollOutcomeTimeoutFirst(fileStatus, needFurtherCall, elapsed) ==
  IF elapsed > 60 THEN "API_FILE_UPLOAD_TIMEOUT"
  ELSE IF fileStatus \in FailureStatuses THEN "API_FILE_UPLOAD_FAILED"
  ELSE IF needFurtherCall THEN "again"
  ELSE "done"

\* A faulty loop body: no test of the elapsed time.
PollOutcomeNoTimeout(fileStatus, needFurtherCall, elapsed) ==
  IF fileStatus \in FailureStatuses THEN "API_FILE_UPLOAD_FAILED"
  ELSE IF needFurtherCall THEN "again"
  ELSE "done"

\* The body of the polling loop after checkResult (chat.ts:827-834).
PollOutcome(fileStatus, needFurtherCall, elapsed) ==
  IF fileStatus \in FailureStatuses THEN "API_FILE_UPLOAD_FAILED"
  ELSE IF elapsed > 60 THEN "API_FILE_UPLOAD_TIMEOUT"
  ELSE IF needFurtherCall THEN "again"
  ELSE "done"

\* uploadFile is called (chat.ts:752-754); checkFileUrl returns at once for
\* BASE64 data (chat.ts:721), whose bytes are decoded and sent to storage
\* (chat.ts:758-805), and probes a remote file (chat.ts:722).
UploadFile(inline) ==
  /\ up.pc = "idle"
  /\ up' = IF inline
           THEN [up EXCEPT !.inline = TRUE, !.pc = "transferring",
                           !.transfers = 1]
           ELSE [up EXCEPT !.pc = "probing"]
  /\ UNCHANGED <<utime, uticks>>

\* The probe is answered (chat.ts:722-743); a file that passes is
\* downloaded (chat.ts:769).
ProbeAnswers(status, len) ==
  /\ up.pc = "probing"
  /\ LET check == CheckFileUrl(status, len)
         probed == [up EXCEPT !.probe = [status |-> status, len |-> len]]
     IN up' = IF check = "ok"
              THEN [probed EXCEPT !.pc = "downloading", !.downloads = 1]
              ELSE [probed EXCEPT !.pc = "threw", !.error = check]
  /\ UNCHANGED <<utime, uticks>>

\* A request of the upload is not answered, or answered with an error
\* (probe, download, acquireToken, PUT, checkResult, GetFileStatus).
UploadRequestFails ==
  /\ up.pc \in {"probing", "downloading", "transferring", "polling"}
  /\ up' = [up EXCEPT !.pc = "threw", !.error = "request"]
  /\ UNCHANGED <<utime, uticks>>

\* The download is answered and the bytes are sent to storage
\* (chat.ts:769-805).
DownloadAnswers ==
  /\ up.pc = "downloading"
  /\ up' = [up EXCEPT !.pc = "transferring", !.transfers = 1]
  /\ UNCHANGED <<utime, uticks>>

\* Storage answers with the file id; polling starts (chat.ts:806-812).
TransferAnswers ==
  /\ up.pc = "transferring"
  /\ up' = [up EXCEPT !.pc = "polling", !.startTime = utime, !.polls = 1]
  /\ UNCHANGED <<utime, uticks>>

\* GetFileStatus is answered (chat.ts:827-834).
PollAnswers(fileStatus, needFurtherCall) ==
  /\ up.pc = "polling"
  /\ LET outcome == PollOutcome(fileStatus, needFurtherCall,
                                utime - up.startTime)
         polled == [up EXCEPT !.last = [fileStatus |-> fileStatus,
                                        needFurtherCall |-> needFurtherCall,
                                        at |-> utime]]
     IN /\ outcome = "again" => up.polls < MaxPolls
        /\ up' = IF outcome = "again" THEN [polled EXCEPT !.polls = @ + 1]
                 ELSE IF outcome = "done" THEN [polled EXCEPT !.pc = "settling"]
                 ELSE [polled EXCEPT !.pc = "threw", !.error = outcome]
  /\ UNCHANGED <<utime, uticks>>

\* The settle timer fires and uploadFile returns the attachment
\* (chat.ts:835-844).
Settled5s ==
  /\ up.pc = "settling"
  /\ up' = [up EXCEPT !.pc = "returned"]
  /\ UNCHANGED <<utime, uticks>>

\* The clock advances by d seconds while the upload waits for an answer.
UploadTick(d) ==
  /\ up.pc \in {"probing", "downloading", "transferring", "polling"}
  /\ uticks < MaxUploadTicks
  /\ utime' = utime + d
  /\ uticks' = uticks + 1
  /\ UNCHANGED up

\* The polling loop on its own, for as many iterations as the provider asks
\* for.  polls counts the GetFileStatus requests up to MaxPolls, which
\* stands for that many or more.

\* uploadFile has reached its loop: needFurtherCall is true and startTime is
\* taken (chat.ts:808-809).
PollingStarts(inline, t) ==
  /\ up = [NoUpload EXCEPT !.pc = "looping", !.inline = inline,
                           !.downloads = IF inline THEN 0 ELSE 1,
                           !.transfers = 1, !.startTime = t]
  /\ utime = t
  /\ uticks = 0

\* while (needFurtherCall): the next GetFileStatus is issued
\* (chat.ts:810-826).
IssuePoll ==
  /\ up.pc = "looping"
  /\ up' = [up EXCEPT !.pc = "polling",
                      !.polls = IF @ < MaxPolls THEN @ + 1 ELSE @]
  /\ UNCHANGED <<utime, uticks>>

\* GetFileStatus is answered with a status (chat.ts:827-834).
PollReturns(fileStatus, needFurtherCall) ==
  /\ up.pc = "polling"
  /\ LET outcome == PollOutcome(fileStatus, needFurtherCall,
                                utime - up.startTime)
         polled == [up EXCEPT !.last = [fileStatus |-> fileStatus,
                                        needFurtherCall |-> needFurtherCall,
                                        at |-> utime]]
     IN up' = IF outcome = "again" THEN [polled EXCEPT !.pc = "looping"]
              ELSE IF outcome = "done" THEN [polled EXCEPT !.pc = "settling"]
              ELSE [polled EXCEPT !.pc = "threw", !.error = outcome]
  /\ UNCHANGED <<utime, uticks>>

\* util.unixTimestamp() advances while a GetFileStatus request is out
\* (chat.ts:832).  Once more than 60 seconds have elapsed the loop reads
\* nothing more from the clock.
SecondsPass(d) ==
  /\ up.pc = "polling"
  /\ utime - up.startTime <= 60
  /\ utime' = utime + d
  /\ UNCHANGED <<up, uticks>>

\* ------------------------------------------------------ messagesPrepare

\* A string is a sequence of characters, a character is its code point.
\* "user", "assistant", "system", ":" and "\n"; a missing role is undefined.
NoRole == <<>>
RoleUser == <<117, 115, 101, 114>>
RoleAssistant == <<97, 115, 115, 105, 115, 116, 97, 110, 116>>
RoleSystem == <<115, 121, 115, 116, 101, 109>>
Colon == <<58>>
Newline == <<10>>

\* The two instructions (chat.ts:405, 412), shortened to their first
\* character, and to that and the character for "file" in the variant for a
\* turn with file or image parts.
AttendToMessage == <<20197>>
AttendToFile == <<20197, 25991>>

\* The parts of the model: a text part, a file part and an image part;
\* b64 says whether util.isBASE64Data(v['url']) holds (chat.ts:391).
TextPart == [type |-> "text", text |-> <<98>>, b64 |-> FALSE]
FilePart == [type |-> "file", text |-> <<>>, b64 |-> FALSE]
InlineImagePart == [type |-> "image_url", text |-> <<>>, b64 |-> TRUE]
Parts == {TextPart, FilePart, InlineImagePart}

StringContent(str) == [isArray |-> FALSE, str |-> str, parts |-> <<>>]
PartsContent(parts) == [isArray |-> TRUE, str |-> <<>>, parts |-> parts]

RECURSIVE Filter(_)
\* message.content.filter(...) (chat.ts:388-395): file and image parts with
\* BASE64 data are dropped.
Filter(parts) ==
  IF parts = <<>> THEN <<>>
  ELSE LET v == Head(parts)
       IN (IF v.type \in {"file", "image_url"} /\ v.b64 THEN <<>> ELSE <<v>>)
            \o Filter(Tail(parts))

\* messages.map(...) (chat.ts:386-398).
ValidMessages(msgs) ==
  [i \in 1..Len(msgs) |->
     IF msgs[i].content.isArray
     THEN [msgs[i] EXCEPT !.content = PartsContent(Filter(@.parts))]
     ELSE msgs[i]]

\* hasFileOrImage (chat.ts:401-403).
HasFileOrImage(message) ==
  /\ message.content.isArray
  /\ \E i \in 1..Len(message.content.parts) :
       message.content.parts[i].type \in {"file", "image_url"}

\* validMessages.splice(validMessages.length - 1, 0, ...) (chat.ts:404-417).
Splice(valid) ==
  LET latestMessage == valid[Len(valid)]
      instruction == IF HasFileOrImage(latestMessage) THEN AttendToFile
                     ELSE AttendToMessage
  IN SubSeq(valid, 1, Len(valid) - 1)
       \o <<[role |-> RoleSystem, content |-> StringContent(instruction)]>>
       \o <<latestMessage>>

RECURSIVE ReduceParts(_, _)
\* message.content.reduce(...) (chat.ts:421-424): 'user:' + v['text'] + "\n"
\* for each text part, whatever the role of the turn.
ReduceParts(role, parts) ==
  IF parts = <<>> THEN <<>>
  ELSE LET v == Head(parts)
       IN (IF v.type # "text" THEN <<>>
           ELSE RoleUser \o Colon \o v.text \o Newline)
            \o ReduceParts(role, Tail(parts))

RECURSIVE Reduce(_)
\* validMessages.reduce(...) (chat.ts:419-426).
Reduce(valid) ==
  IF valid = <<>> THEN <<>>
  ELSE LET message == Head(valid)
       IN (IF message.content.isArray
           THEN ReduceParts(message.role, message.content.parts)
           ELSE (IF message.role = NoRole THEN RoleUser ELSE message.role)
                  \o Colon \o message.content.str \o Newline)
            \o Reduce(Tail(valid))

RECURSIVE Escape(_)
\* JSON.stringify of a string: a newline is written as backslash, n.
Escape(str) ==
  IF str = <<>> THEN <<>>
  ELSE (IF Head(str) = 10 THEN <<92, 110>> ELSE <<Head(str)>>)
         \o Escape(Tail(str))

\* JSON.stringify({chatId, messageInfo: {text, attachments}})
\* (chat.ts:429-435), keys and quotes left out: "{", the chat id, ",", the
\* text, ",@" when there are attachments, "}".
JSONStringify(chatId, text, attachments) ==
  <<123>> \o chatId \o <<44>> \o Escape(text)
    \o (IF attachments THEN <<44, 64>> ELSE <<>>) \o <<125>>

\* The UTF-8 bytes of a character of the basic plane.
Utf8Char(c) ==
  IF c < 128 THEN <<c>>
  ELSE IF c < 2048 THEN <<192 + (c \div 64), 128 + (c % 64)>>
  ELSE <<224 + (c \div 4096), 128 + ((c \div 64) % 64), 128 + (c % 64)>>

RECURSIVE BufferFrom(_)
\* Buffer.from(json) (chat.ts:695): the UTF-8 bytes of the string.
BufferFrom(json) ==
  IF json = <<>> THEN <<>> ELSE Utf8Char(Head(json)) \o BufferFrom(Tail(json))

\* The chat id of the model, "c".
ChatId == <<99>>

\* messagesPrepare (chat.ts:384-438): the merged text, its JSON, the bytes
\* of the JSON and the frame wrapData makes of them.
MessagesPrepare(convId, msgs, attachments) ==
  LET content == Reduce(Splice(ValidMessages(msgs))) \o RoleAssistant \o Colon
      json == JSONStringify(convId, content, attachments)
  IN [text |-> content, json |-> json, payload |-> BufferFrom(json),
      data |-> WrapData(BufferFrom(json))]

\* messagesPrepare has not been called.
NoOutgoing == [text |-> <<>>, json |-> <<>>, payload |-> <<>>, data |-> <<>>]

NewDecoder == [chunk |-> <<>>, temp |-> <<>>, hands |-> <<>>, pieces |-> <<>>]

\* messagesPrepare is called for the request (chat.ts:235, 315).
Prepare ==
  /\ outgoing = NoOutgoing
  /\ outgoing' = MessagesPrepare(ChatId, messages, refs)
  /\ rest' = outgoing'.data
  /\ UNCHANGED <<messages, refs, dec>>

\* The next n bytes of the frame reach a decoder (chat.ts:517-531); the
\* frame arrives whole or in two pieces.
Receive(n) ==
  /\ outgoing # NoOutgoing
  /\ n \in 1..Len(rest)
  /\ Len(dec.pieces) = 1 => n = Len(rest)
  /\ LET d == OnData(dec.chunk, dec.temp, SubSeq(rest, 1, n))
     IN dec' = [chunk |-> IF d.hand = <<>> THEN d.chunk ELSE <<>>,
                temp |-> d.temp,
                hands |-> dec.hands \o d.hand,
                pieces |-> Append(dec.pieces, n)]
  /\ rest' = SubSeq(rest, n + 1, Len(rest))
  /\ UNCHANGED <<messages, refs, outgoing>>

\* ------------------------------------------------------ repeated runs

\* util.unixTimestamp() when a run starts (chat.ts:483, 554).
Createds == {0, 1}

\* A run that has just started: receiveStream's data and refContent
\* (chat.ts:471-485) and createTransStream's output with the opening chunk
\* (chat.ts:554-572).
NewRun(created) ==
  [created |-> created, pos |-> 0, content |-> <<>>, ref |-> <<>>,
   ts |-> Write(NewTransStream, RoleChunk), threw |-> FALSE]

\* A faulty choice of accumulators: those of the first run, as variables
\* declared outside receiveStream / createTransStream would be.
AccShared(i) == 1

\* The accumulators the parsers of run i work on: locals of the call
\* (chat.ts:471-485, 556).
Acc(i) == i

\* The completion object receiveStream resolves with (chat.ts:471-484).
CompletionObject(content, created) ==
  [data |-> [NewData EXCEPT !.content = content], created |-> created]

\* The bytes of the streaming output: every chunk carries created
\* (chat.ts:570, 592, 621, 637, 653), the sentinel does not.
StreamBytes(out, created) ==
  [i \in 1..Len(out) |->
     IF out[i] = Sentinel THEN [k |-> out[i].k, v |-> out[i].v, created |-> 0]
     ELSE [k |-> out[i].k, v |-> out[i].v, created |-> created]]

\* Run i hands its next event to both parsers (chat.ts:486-513, 573-659).
Feed(i) ==
  /\ runs[i].pos < Len(events)
  /\ ~runs[i].threw
  /\ LET payload == events[runs[i].pos + 1]
         a == Acc(i)
         b == ParserBuffered(runs[a].content, runs[a].ref, payload)
         s == ParserStream(runs[a].ts, payload)
         done == [runs EXCEPT ![a].content = b.content, ![a].ref = b.ref,
                              ![a].ts = s.ts]
     IN runs' = [done EXCEPT ![i].pos = @ + 1, ![i].threw = b.threw]
  /\ UNCHANGED events

\* ------------------------------------------------------- specifications

RECURSIVE SeqsUpTo(_, _)
\* The sequences over S of length 1..n.
SeqsUpTo(S, n) ==
  IF n = 0 THEN {}
  ELSE LET shorter == SeqsUpTo(S, n - 1)
       IN {<<x>> : x \in S} \cup shorter
            \cup {Append(fs, x) : fs \in shorter, x \in S}

LeaseIdle ==
  /\ accessTokenMap = [k \in Keys |-> NoEntry]
  /\ accessTokenRequestQueueMap = [k \in Keys |-> NoQueue]
  /\ exch = <<>>
  /\ pc = [p \in Procs |-> "idle"]
  /\ call = [p \in Procs |-> NoCall]
  /\ now = 0
  /\ ticks = 0
  /\ calls = 0
  /\ rejected = NoRequest

\* receiveStream / createTransStream have just registered their listeners
\* on the response (chat.ts:469-516, 554-572, 660-661).
StreamStart(m, fs) ==
  /\ mode = m
  /\ frames = fs
  /\ wire = Serialize(fs)
  /\ upstream = "open"
  /\ chunk = <<>>
  /\ temp = <<>>
  /\ data = NewData
  /\ refContent = <<>>
  /\ promise = "pending"
  /\ transStream = IF m = "streaming" THEN Write(NewTransStream, RoleChunk)
                   ELSE NewTransStream
  /\ endCalls = 0
  /\ alive = TRUE
  /\ parsed = <<>>
  /\ abort = NoAbort

\* No completion request has been made.
PipeIdle ==
  /\ maxRetry = MAX_RETRY_COUNT
  /\ req = [r \in Reqs |-> NoReq]
  /\ convs = <<>>
  /\ writers = [r \in Reqs |-> {}]

\* No uploadFile call has been made.
UploadIdle ==
  /\ up = NoUpload
  /\ utime = 0
  /\ uticks = 0

\* No run of the transcoders.
ReplayIdle ==
  /\ events = <<>>
  /\ runs = [i \in Runs |-> NewRun(0)]

\* No message is being prepared.
PrepareIdle ==
  /\ messages = <<>>
  /\ refs = FALSE
  /\ outgoing = NoOutgoing
  /\ rest = <<>>
  /\ dec = NewDecoder

InitLease ==
  /\ LeaseIdle
  /\ StreamStart("buffered", <<>>)
  /\ PipeIdle
  /\ UploadIdle
  /\ ReplayIdle
  /\ PrepareIdle

LeaseStep ==
  \/ \E p \in Procs, k \in Keys : Acquire(p, k)
  \/ \E i \in DOMAIN exch, o \in Outcomes : RefreshResponse(i, o)
  \/ \E p \in Procs : Resume(p)
  \/ \E p \in Procs, op \in Ops, a \in Answers : Answer(p, op, a)
  \/ \E d \in {1, ACCESS_TOKEN_EXPIRES} : Tick(d)

NextLease ==
  LeaseStep
    /\ UNCHANGED <<streamVars, pipeVars, uploadVars, replayVars, prepVars>>

SpecLease == InitLease /\ [][NextLease]_vars

InitStream ==
  /\ LeaseIdle
  /\ \E m \in {"buffered", "streaming"}, fs \in SeqsUpTo(Payloads, MaxFrames) :
       StreamStart(m, fs)
  /\ PipeIdle
  /\ UploadIdle
  /\ ReplayIdle
  /\ PrepareIdle

StreamStep ==
  \/ \E n \in 1..Len(wire) : Data(n)
  \/ UpstreamError
  \/ UpstreamClose
  \/ TransStreamCloses
  \/ ConsumerGone

NextStream ==
  StreamStep
    /\ UNCHANGED <<leaseVars, pipeVars, uploadVars, replayVars, prepVars>>

SpecStream == InitStream /\ [][NextStream]_vars

InitPipeline ==
  /\ LeaseIdle
  /\ StreamStart("buffered", <<>>)
  /\ maxRetry \in RetryBounds
  /\ req = [r \in Reqs |-> NoReq]
  /\ convs = <<>>
  /\ writers = [r \in Reqs |-> {}]
  /\ UploadIdle
  /\ ReplayIdle
  /\ PrepareIdle

PipelineStep ==
  \/ \E r \in Reqs, m \in {"buffered", "streaming"} : CreateCompletion(r, m)
  \/ \E r \in Reqs : UploadsDone(r)
  \/ \E r \in Reqs : CreateChatAnswers(r)
  \/ \E r \in Reqs, stage \in {"upload", "create", "token", "send"} :
       Fails(r, stage)
  \/ \E r \in Reqs : SendAnswers(r)
  \/ \E r \in Reqs : StreamData(r)
  \/ \E r \in Reqs : TerminalEvent(r)
  \/ \E r \in Reqs : StreamError(r)
  \/ \E r \in Reqs : StreamClose(r)
  \/ \E r \in Reqs : RetryTimer(r)
  \/ \E c \in DOMAIN convs, ok \in BOOLEAN : RemovalAnswers(c, ok)

NextPipeline ==
  PipelineStep
    /\ UNCHANGED <<leaseVars, streamVars, uploadVars, replayVars, prepVars>>

SpecPipeline == InitPipeline /\ [][NextPipeline]_vars

\* Every request and answer that can happen does happen in the end.
SpecPipelineLive == SpecPipeline /\ WF_vars(NextPipeline)

InitUpload ==
  /\ LeaseIdle
  /\ StreamStart("buffered", <<>>)
  /\ PipeIdle
  /\ up = NoUpload
  /\ utime \in {0, 1}
  /\ uticks = 0
  /\ ReplayIdle
  /\ PrepareIdle

UploadStep ==
  \/ \E inline \in BOOLEAN : UploadFile(inline)
  \/ \E status \in ProbeStatuses, len \in ProbeLengths :
       ProbeAnswers(status, len)
  \/ UploadRequestFails
  \/ DownloadAnswers
  \/ TransferAnswers
  \/ \E fileStatus \in FileStatuses, needFurtherCall \in BOOLEAN :
       PollAnswers(fileStatus, needFurtherCall)
  \/ Settled5s
  \/ \E d \in {1, 60} : UploadTick(d)

NextUpload ==
  UploadStep
    /\ UNCHANGED <<leaseVars, streamVars, pipeVars, replayVars, prepVars>>

SpecUpload == InitUpload /\ [][NextUpload]_vars

InitPolling ==
  /\ LeaseIdle
  /\ StreamStart("buffered", <<>>)
  /\ PipeIdle
  /\ \E inline \in BOOLEAN, t \in {0, 1} : PollingStarts(inline, t)
  /\ ReplayIdle
  /\ PrepareIdle

\* Some answer to the GetFileStatus request that is out.
PollAnswered ==
  \E fileStatus \in FileStatuses, needFurtherCall \in BOOLEAN :
    PollReturns(fileStatus, needFurtherCall)

\* Some advance of the clock.
ClockAdvances == \E d \in {1, 60} : SecondsPass(d)

PollingStep ==
  \/ IssuePoll
  \/ PollAnswered
  \/ ClockAdvances
  \/ Settled5s

\* The polling loop touches nothing but the upload.
OnlyUpload ==
  UNCHANGED <<leaseVars, streamVars, pipeVars, replayVars, prepVars>>

NextPolling == PollingStep /\ OnlyUpload

\* The loop runs, every GetFileStatus request is answered, the settle timer
\* fires, and of the requests that are out while fewer than 61 seconds have
\* elapsed not all are answered within the second they were issued in.
SpecPollingLive ==
  /\ InitPolling
  /\ [][NextPolling]_vars
  /\ WF_vars(IssuePoll /\ OnlyUpload)
  /\ WF_vars(PollAnswered /\ OnlyUpload)
  /\ SF_vars(ClockAdvances /\ OnlyUpload)
  /\ WF_vars(Settled5s /\ OnlyUpload)

InitReplay ==
  /\ LeaseIdle
  /\ StreamStart("buffered", <<>>)
  /\ PipeIdle
  /\ UploadIdle
  /\ events \in SeqsUpTo(Payloads, MaxEvents)
  /\ \E c1, c2 \in Createds : runs = <<NewRun(c1), NewRun(c2)>>
  /\ PrepareIdle

ReplayStep == \E i \in Runs : Feed(i)

NextReplay ==
  ReplayStep
    /\ UNCHANGED <<leaseVars, streamVars, pipeVars, uploadVars, prepVars>>

SpecReplay == InitReplay /\ [][NextReplay]_vars

\* The contents a turn can have: a string, or a list of up to MaxParts parts.
Contents ==
  {StringContent(<<97>>)}
    \cup {PartsContent(ps) : ps \in SeqsUpTo(Parts, MaxParts)}

Turns == [role : {NoRole, RoleUser, RoleAssistant}, content : Contents]

InitPrepare ==
  /\ LeaseIdle
  /\ StreamStart("buffered", <<>>)
  /\ PipeIdle
  /\ UploadIdle
  /\ ReplayIdle
  /\ messages \in SeqsUpTo(Turns, MaxTurns)
  /\ refs \in BOOLEAN
  /\ outgoing = NoOutgoing
  /\ rest = <<>>
  /\ dec = NewDecoder

PrepareStep ==
  \/ Prepare
  \/ \E n \in 1..Len(rest) : Receive(n)

NextPrepare ==
  PrepareStep
    /\ UNCHANGED <<leaseVars, streamVars, pipeVars, uploadVars, replayVars>>

SpecPrepare == InitPrepare /\ [][NextPrepare]_vars

\* ------------------------------------------------------- claims: lease store

\* A caller whose acquireToken call has ended (returned or thrown).
Settled(p) == call[p].out # "none"

\* C1: acquireToken calls issued for a key while no lease is cached cause
\* exactly one RegisterDevice exchange (each depends on an exchange, calls
\* pending together depend on the same one, and no key has two exchanges in
\* flight), and the calls that shared the exchange all end the same way: with
\* the same genuine lease (or with the same failure).
C1_SingleFlightSameLease ==
  /\ \A k \in Keys : Cardinality(InFlight(k)) <= 1
  /\ \A p \in Procs :
       call[p] # NoCall /\ call[p].seenId = 0 => call[p].ex # 0
  /\ \A p, q \in Procs :
       /\ pc[p] \in {"refreshing", "queued"} /\ pc[q] \in {"refreshing", "queued"}
       /\ call[p].key = call[q].key
       => call[p].ex = call[q].ex
  /\ \A p, q \in Procs :
       call[p].ex # 0 /\ call[p].ex = call[q].ex /\ Settled(p) /\ Settled(q)
       => /\ call[p].out = call[q].out
          /\ call[p].token = call[q].token
          /\ call[p].out = "returned" => call[p].token.genuine

\* C2: when the exchange a call depends on has failed, the call fails: no
\* caller, initiator or joiner, returns a token from a failed exchange.
C2_FailureReachesEveryCaller ==
  \A p \in Procs :
    Settled(p) /\ call[p].ex # 0 /\ exch[call[p].ex].state # "ok"
    => call[p].out = "threw"

\* C3: right after the provider has answered a request made with a lease for
\* a key with an authentication failure, no value is cached for that key.
C3_EvictedOnAuthFailure ==
  rejected # NoRequest => accessTokenMap[rejected.key] = NoEntry

\* C4: a call is served from the cache, with no exchange, exactly when a lease
\* was cached and now <= expiresAt, and it then returns that lease; every
\* cached lease expires 900 s after the response that issued it.
C4_CacheHitIffValidLease ==
  /\ \A p \in Procs :
       call[p] # NoCall =>
         /\ (call[p].ex = 0) <=> call[p].valid
         /\ call[p].ex = 0 =>
              /\ call[p].out = "returned"
              /\ call[p].token.genuine
              /\ call[p].token.access = call[p].seenId
  /\ \A k \in Keys :
       accessTokenMap[k].kind = "lease" =>
         accessTokenMap[k].refreshTime =
           exch[accessTokenMap[k].id].at + ACCESS_TOKEN_EXPIRES

\* ------------------------------------------------------- claims: decoder

\* Every payload of the response is JSON.
AllValidJSON(fs) == \A i \in 1..Len(fs) : JSONParse(fs[i]).ok

IsPrefix(s, t) == Len(s) <= Len(t) /\ s = SubSeq(t, 1, Len(s))

\* What the decoder hands the parser when the whole response arrives as one
\* chunk.
FedWhole(fs) == OnData(<<>>, <<>>, Serialize(fs)).hand

\* C5: for a response of valid frames, once every byte has been delivered (in
\* chunks cut anywhere) and the stream has closed, the payloads handed to the
\* parser are the ones handed to it when the bytes arrive as one chunk; in
\* buffered and in streaming mode.
C5_SplitFeedEqualsWholeFeed ==
  (upstream = "closed" /\ wire = <<>> /\ AllValidJSON(frames))
    => parsed = FedWhole(frames)

\* C6: at every point of a stream of valid frames, the payloads handed to the
\* parser so far are a prefix of the payloads of the frames sent: none out of
\* order, none twice, none that no frame carries.
C6_ParsedIsPrefixOfFrames ==
  AllValidJSON(frames) => IsPrefix(parsed, frames)

\* C7: once a payload that is not JSON has been handed to the parser, nothing
\* more of the stream is processed: no later payload is parsed as an event,
\* the buffered answer stays as it was and no further streaming chunk is
\* written.
C7_InvalidPayloadAborts ==
  abort.on =>
    /\ \A i \in (abort.parsed + 1)..Len(parsed) : ~JSONParse(parsed[i]).ok
    /\ data.content = abort.content
    /\ Chunks(transStream.out) = abort.chunks

\* ---------------------------------------------------- claims: transcoders

IsText(p) == JSONParse(p).type = "textEvent"
IsSearch(p) == JSONParse(p).type = "pipelineEvent"
IsDone(p) == JSONParse(p).type = "doneEvent"

\* Text and search events, with at most a DoneEvent, which is the last.
TextsSearchesDone(ps) ==
  \A i \in 1..Len(ps) :
    IsText(ps[i]) \/ IsSearch(ps[i]) \/ (IsDone(ps[i]) /\ i = Len(ps))

RECURSIVE EventChunks(_, _)
\* One chunk per text and per search event in event order, and the terminal
\* chunk and the sentinel for DoneEvent; emptyToo says whether a TextEvent
\* with empty text has a chunk as well.
EventChunks(ps, emptyToo) ==
  IF ps = <<>> THEN <<>>
  ELSE LET r == JSONParse(Head(ps))
           c == IF r.type = "textEvent"
                  THEN (IF r.body # <<>> \/ emptyToo THEN <<TextChunk(r.body)>>
                        ELSE <<>>)
                ELSE IF r.type = "pipelineEvent" THEN <<SearchChunk(r.body)>>
                ELSE IF r.type = "doneEvent" THEN <<StopChunk, Sentinel>>
                ELSE <<>>
       IN c \o EventChunks(Tail(ps), emptyToo)

\* While the consumer is there, the output for text and search events and a
\* final DoneEvent is the role chunk and the chunks of the events; a stream
\* that ended without DoneEvent has the sentinel after them.
StreamingOutput(emptyToo) ==
  (mode = "streaming" /\ ~transStream.gone /\ TextsSearchesDone(parsed)) =>
    LET body == <<RoleChunk>> \o EventChunks(parsed, emptyToo)
        done == parsed # <<>> /\ IsDone(parsed[Len(parsed)])
    IN transStream.out =
         IF transStream.ended /\ ~done THEN Append(body, Sentinel) ELSE body

\* C8: in streaming mode the output is the opening role chunk, then one chunk
\* per TextEvent with non-empty text and per SearchEvent in event order (so a
\* search chunk precedes the chunk of any later text), then on DoneEvent the
\* terminal chunk (empty delta, stop, usage 1,1,2) and the sentinel.
C8_StreamingOrder == StreamingOutput(FALSE)

\* C8 as stated: one chunk per TextEvent, a TextEvent with empty text
\* included.
C8_OneChunkPerTextEvent == StreamingOutput(TRUE)

\* A search event, a text and DoneEvent have been transcoded.
C8_Witness ==
  /\ mode = "streaming"
  /\ parsed = <<<<Tag.pipelineEvent, 8>>, <<Tag.textEvent, 6>>, <<Tag.doneEvent>>>>
  /\ transStream.out = <<RoleChunk, SearchChunk(<<8>>), TextChunk(<<6>>),
                         StopChunk, Sentinel>>

\* The sentinels written.
Sentinels(out) == Len(SelectSeq(out, LAMBDA d : d = Sentinel))

\* DoneEvent or ErrorEvent was parsed, or the upstream closed or failed.
Terminated == endCalls > 0 \/ upstream # "open"

\* C9: on every termination path of a streaming request whose consumer is
\* there, the sentinel is written exactly once and last, and no write or end
\* is attempted on the output stream after it has been ended.
C9_SentinelOnceAndLast ==
  (mode = "streaming" /\ ~transStream.gone /\ ~abort.on) =>
    /\ transStream.late = 0
    /\ Terminated =>
         /\ Sentinels(transStream.out) = 1
         /\ transStream.out[Len(transStream.out)] = Sentinel

\* TextEvents, then one DoneEvent.
TextsThenDone(ps) ==
  /\ ps # <<>>
  /\ IsDone(ps[Len(ps)])
  /\ \A i \in 1..(Len(ps) - 1) : IsText(ps[i])

RECURSIVE Concat(_)
\* The texts of the events, concatenated in event order (an empty text adds
\* nothing).
Concat(ps) ==
  IF ps = <<>> THEN <<>>
  ELSE LET r == JSONParse(Head(ps))
       IN (IF r.type = "textEvent" /\ r.body # <<>>
           THEN <<Item("text", r.body)>> ELSE <<>>) \o Concat(Tail(ps))

\* C10: in buffered mode, after TextEvents, one DoneEvent and stream close, the
\* result's content is the concatenation of the texts in event order, its
\* finish_reason is "stop", its object "chat.completion", its id the
\* conversation id and its usage 1, 1, 2.
C10_BufferedResult ==
  (mode = "buffered" /\ promise = "resolved" /\ TextsThenDone(parsed)) =>
    /\ data.content = Concat(parsed)
    /\ data.finish_reason = "stop"
    /\ data.object = "chat.completion"
    /\ data.id = ConvId
    /\ data.usage =
         [prompt_tokens |-> 1, completion_tokens |-> 1, total_tokens |-> 2]

\* Two texts and DoneEvent were received and the promise has resolved.
C10_Witness ==
  /\ mode = "buffered" /\ promise = "resolved"
  /\ parsed = <<<<Tag.textEvent, 6>>, <<Tag.textEvent, 7>>, <<Tag.doneEvent>>>>
  /\ data.content = <<Item("text", <<6>>), Item("text", <<7>>)>>

RECURSIVE AllResults(_)
\* The results of the SearchEvents among the events, in arrival order.
AllResults(ps) ==
  IF ps = <<>> THEN <<>>
  ELSE (IF IsSearch(Head(ps)) THEN JSONParse(Head(ps)).body ELSE <<>>)
         \o AllResults(Tail(ps))

\* The answer for text and search events and a final DoneEvent, when the
\* results listed are rs: the texts, and after DoneEvent the block with the
\* header and one line per result, without the last newline.
BufferedAnswer(ps, rs) ==
  Concat(ps) \o
    (IF ps # <<>> /\ IsDone(ps[Len(ps)]) /\ rs # <<>>
     THEN RefHeader \o TrimNewline(RefLines(rs)) ELSE <<>>)

\* C11: in buffered mode no search result is in the answer before DoneEvent
\* is processed; on DoneEvent the answer gets, after all text, the header and
\* one "title(url)" line per accumulated result with no trailing newline, and
\* nothing if no result was accumulated.
C11_SearchBlockOnDone ==
  (mode = "buffered" /\ TextsSearchesDone(parsed)) =>
    data.content = BufferedAnswer(parsed, AllResults(parsed))

\* Text and search events, then one ErrorEvent, which is the last.
TextsSearchesThenError(ps) ==
  /\ ps # <<>>
  /\ JSONParse(ps[Len(ps)]).type = "error"
  /\ \A i \in 1..(Len(ps) - 1) : IsText(ps[i]) \/ IsSearch(ps[i])

\* C12: in streaming mode an ErrorEvent produces exactly one chunk, with the
\* notice and finish_reason "stop", directly followed by the sentinel, and
\* the output stream is ended.
C12_ErrorEventEndsStream ==
  (mode = "streaming" /\ ~transStream.gone /\ TextsSearchesThenError(parsed)) =>
    /\ transStream.out =
         <<RoleChunk>>
           \o EventChunks(SubSeq(parsed, 1, Len(parsed) - 1), FALSE)
           \o <<ErrorChunk(JSONParse(parsed[Len(parsed)]).body), Sentinel>>
    /\ transStream.ended

\* A text and then an ErrorEvent have been transcoded.
C12_Witness ==
  /\ mode = "streaming"
  /\ parsed = <<<<Tag.textEvent, 6>>, <<Tag.error, 9>>>>
  /\ transStream.out =
       <<RoleChunk, TextChunk(<<6>>), ErrorChunk(<<9>>), Sentinel>>
  /\ transStream.ended

\* C13: when the upstream byte stream of a streaming request has raised an
\* error, the output ends with an in-band error chunk followed by the
\* sentinel.
C13_UpstreamErrorReported ==
  (mode = "streaming" /\ ~transStream.gone /\ upstream = "errored"
     /\ endCalls = 0) =>
    LET out == transStream.out
    IN /\ Len(out) >= 2
       /\ out[Len(out)] = Sentinel
       /\ out[Len(out) - 1].k = "error-stop"

\* C17: once the consumer of the streaming output has gone away, no step (a
\* later event, upstream close or error) writes to the output stream or
\* makes a refused write or end on it.
C17_NoWriteAfterConsumerGone ==
  [][transStream.gone =>
       /\ transStream'.out = transStream.out
       /\ transStream'.late = transStream.late]_vars

\* The consumer left before the first event; a text and DoneEvent were
\* processed and the upstream closed, and the output has the role chunk only.
C17_Witness ==
  /\ mode = "streaming" /\ transStream.gone
  /\ parsed = <<<<Tag.textEvent, 6>>, <<Tag.doneEvent>>>>
  /\ upstream = "closed"
  /\ transStream.out = <<RoleChunk>>
  /\ transStream.late = 0

\* ------------------------------------------------------ claims: pipeline

\* C14: every conversation that was created gets a deletion request in the
\* end, whether its attempt ended with a terminated stream or with a failure
\* after the conversation existed.
C14_EveryConversationDeleted ==
  \A c \in 1..(NReqs * (MaxRetryBound + 1)) :
    (c \in DOMAIN convs) ~> (c \in DOMAIN convs /\ convs[c].issued > 0)

\* C15: the deletion is fire-and-forget: whenever a deletion has been issued
\* the result has been delivered already, and the answer to a deletion
\* request, success or failure, changes nothing of any request.
C15_DeletionFireAndForget ==
  /\ [](\A c \in DOMAIN convs :
          convs[c].issued > 0 => req[convs[c].by].pc = "returned")
  /\ [][(\E c \in DOMAIN convs :
           convs[c].removal = "pending" /\ convs'[c].removal # "pending")
        => req' = req]_vars

\* The deletion of the conversation of a buffered request has failed and the
\* request has its answer.
C15_Witness ==
  \E c \in DOMAIN convs :
    /\ convs[c].removal = "failed"
    /\ req[convs[c].by].mode = "buffered"
    /\ req[convs[c].by].pc = "returned"

\* The conversations created for request r.
ConvsOf(r) == {c \in DOMAIN convs : convs[c].by = r}

\* C16: a request runs the pipeline at most MAX_RETRY_COUNT + 1 times (once
\* with the configured bound 0); it waits RETRY_DELAY only after a failed
\* attempt with retryCount below the bound, every run has a conversation of
\* its own, and when the bound is exhausted the request throws the error of
\* its last attempt.
C16_BoundedRetry ==
  \A r \in Reqs :
    /\ req[r].attempts <= maxRetry + 1
    /\ maxRetry = MAX_RETRY_COUNT => req[r].attempts <= MAX_RETRY_COUNT + 1
    /\ req[r].pc # "idle" => req[r].attempts = req[r].retryCount + 1
    /\ req[r].pc = "waiting" =>
         req[r].delay = RETRY_DELAY /\ req[r].retryCount < maxRetry
    /\ req[r].pc = "threw" =>
         /\ req[r].retryCount = maxRetry
         /\ req[r].thrown.attempt = req[r].attempts
    /\ Cardinality(ConvsOf(r)) <= req[r].attempts
    /\ \A c, d \in ConvsOf(r) : c # d => convs[c].attempt # convs[d].attempt

\* With retry bound 1, a request has failed twice after sending and thrown
\* the error of its second attempt.
C16_Witness ==
  /\ maxRetry = 1
  /\ \E r \in Reqs :
       /\ req[r].pc = "threw"
       /\ req[r].attempts = 2
       /\ req[r].thrown = [stage |-> "stream", attempt |-> 2]
       /\ Cardinality(ConvsOf(r)) = 2

\* C20: a conversation id is used for at most one message send, and only by
\* the attempt of the request that created it; the decoder buffer and the
\* accumulator of a request are touched by that request only.
C20_ConversationAndBuffersOwned ==
  /\ \A c \in DOMAIN convs :
       /\ convs[c].sends <= 1
       /\ convs[c].sentBy \subseteq {<<convs[c].by, convs[c].attempt>>}
  /\ \A c, d \in DOMAIN convs :
       c # d => <<convs[c].by, convs[c].attempt>>
                  # <<convs[d].by, convs[d].attempt>>
  /\ \A r \in Reqs : writers[r] \subseteq {r}

\* Two requests are receiving their responses at the same time, each with a
\* conversation of its own.
C20_Witness ==
  \E r, q \in Reqs :
    /\ r # q
    /\ req[r].stream = "open" /\ req[q].stream = "open"
    /\ req[r].convId # req[q].convId
    /\ convs[req[r].convId].sends = 1 /\ convs[req[q].convId].sends = 1
    /\ writers[r] = {r} /\ writers[q] = {q}

\* -------------------------------------------------------- claims: upload

\* The probe of a remote file has been answered.
Probed == ~up.inline /\ up.probe # NoProbe

\* What is said of the size ceiling; successOnly says whether the failure with
\* FileExceedsSize is claimed for probes with a success status only.
SizeCeiling(successOnly) ==
  Probed =>
    /\ (up.probe.len > FILE_MAX_SIZE
          /\ (successOnly => up.probe.status < 400)) =>
         /\ up.pc = "threw"
         /\ up.error = "API_FILE_EXECEEDS_SIZE"
    /\ up.probe.len > FILE_MAX_SIZE => up.downloads = 0 /\ up.transfers = 0
    /\ (up.probe.len = FILE_MAX_SIZE /\ up.probe.status < 400) =>
         /\ up.error # "API_FILE_EXECEEDS_SIZE"
         /\ up.downloads = 1

\* C18: for a remote attachment whose probe is answered with a success status
\* and a content length above 100 MiB, upload fails with FileExceedsSize;
\* for any probe with such a length no download and no transfer is issued; a
\* length of exactly 100 MiB is accepted and the file is downloaded.
C18_SizeCeiling == SizeCeiling(TRUE)

\* C18 as stated: FileExceedsSize for every probe that reports more than
\* 100 MiB, whatever its status.
C18_ExceedsSizeWhateverStatus == SizeCeiling(FALSE)

\* The probe reported one byte more than 100 MiB and the upload has failed
\* with FileExceedsSize, nothing downloaded or transferred.
C18_Witness ==
  /\ up.probe = [status |-> 200, len |-> FILE_MAX_SIZE + 1]
  /\ up.pc = "threw" /\ up.error = "API_FILE_EXECEEDS_SIZE"
  /\ up.downloads = 0 /\ up.transfers = 0

\* C19: when a status poll that asks for a further call, with no failure
\* status, is answered more than 60 seconds after polling started, upload
\* fails with FileUploadTimeout; polling never goes on after such an answer.
C19_PollingTimeout ==
  /\ (/\ up.last # NoPoll
      /\ up.last.needFurtherCall
      /\ up.last.fileStatus \notin FailureStatuses
      /\ up.last.at - up.startTime > 60) =>
       up.pc = "threw" /\ up.error = "API_FILE_UPLOAD_TIMEOUT"
  /\ (up.pc = "polling" /\ up.last # NoPoll) =>
       up.last.at - up.startTime <= 60

\* A second poll asked for a further call 61 seconds after polling started
\* and the upload has failed with FileUploadTimeout.
C19_Witness ==
  /\ up.pc = "threw" /\ up.error = "API_FILE_UPLOAD_TIMEOUT"
  /\ up.polls = 2
  /\ up.last.needFurtherCall
  /\ up.last.at - up.startTime = 61

\* -------------------------------------------- claims: decoder, continued

\* The bytes of the response received so far.
Received == SubSeq(Serialize(frames), 1, Len(Serialize(frames)) - Len(wire))

\* The frames that are complete in the first n bytes of the response.
CompleteFrames(fs, n) ==
  LET fit == {j \in 0..Len(fs) : Len(Serialize(SubSeq(fs, 1, j))) <= n}
      k == CHOOSE j \in fit : \A i \in fit : i <= j
  IN SubSeq(fs, 1, k)

\* C22: after every data event, and so when close is handled, every frame of
\* a valid response that is complete in the bytes received has been handed
\* to the parser: a frame that arrives in the same chunk as the frame before
\* it (a DoneEvent, for one) is processed with it.
C22_EveryCompleteFrameEmitted ==
  AllValidJSON(frames) => parsed = CompleteFrames(frames, Len(Received))

\* C23: after every data event of a valid response the bytes the decoder
\* retains, temp followed by chunk, are the received bytes that follow the
\* last frame handed to the parser: none dropped, duplicated or reordered.
C23_RetainedIsSuffix ==
  (AllValidJSON(frames) /\ ~abort.on) =>
    temp \o chunk =
      SubSeq(Received, Len(Serialize(parsed)) + 1, Len(Received))

\* --------------------------------------------- claims: lease store, continued

\* C24: every value in the lease cache is a lease of a successful exchange,
\* a failed exchange leaves no entry, and no acquireToken call returns a
\* token that was not built from a lease.
C24_CacheHoldsOnlyLeases ==
  /\ \A k \in Keys : accessTokenMap[k].kind \in {"none", "lease"}
  /\ \A k \in Keys :
       accessTokenMap[k].kind # "none" =>
         \E i \in DOMAIN exch :
           exch[i].key = k /\ exch[i].state = "ok"
  /\ \A p \in Procs : call[p].out = "returned" => call[p].token.genuine

\* ---------------------------------------- claims: transcoders, continued

\* C26: in buffered mode the side buffer holds the lines of every result of
\* every SearchEvent received, in arrival order, and the block appended on
\* DoneEvent lists them all.
C26_SideBufferAccumulates ==
  (mode = "buffered" /\ TextsSearchesDone(parsed)) =>
    IF parsed # <<>> /\ IsDone(parsed[Len(parsed)])
    THEN data.content = BufferedAnswer(parsed, AllResults(parsed))
    ELSE refContent = RefLines(AllResults(parsed))

RECURSIVE FoldBuffered(_, _, _)
\* The answer after the buffered parser has processed the events ps.
FoldBuffered(content, ref, ps) ==
  IF ps = <<>> THEN content
  ELSE LET b == ParserBuffered(content, ref, Head(ps))
       IN FoldBuffered(b.content, b.ref, Tail(ps))

HasDone(ps) == \E i \in 1..Len(ps) : IsDone(ps[i])

\* The position of the first DoneEvent.
FirstDone(ps) ==
  CHOOSE i \in 1..Len(ps) : IsDone(ps[i]) /\ \A j \in 1..(i - 1) : ~IsDone(ps[j])

\* C27: in buffered mode the completion resolves when DoneEvent is processed
\* and its content is the content at that point, whatever arrives later; a
\* stream that closes without DoneEvent does not resolve.
C27_ResolvesOnDone ==
  (mode = "buffered" /\ \A i \in 1..Len(parsed) : JSONParse(parsed[i]).ok) =>
    /\ HasDone(parsed) =>
         /\ promise = "resolved"
         /\ data.content =
              FoldBuffered(<<>>, <<>>, SubSeq(parsed, 1, FirstDone(parsed)))
    /\ promise = "resolved" => HasDone(parsed)

\* C28: in streaming mode, while the response is open and the consumer is
\* there, frames after a terminal event cause no write attempt on the ended
\* output stream and no second invocation of the end callback.
C28_StopsAfterTerminalEvent ==
  (mode = "streaming" /\ upstream = "open" /\ ~transStream.gone) =>
    /\ endCalls <= 1
    /\ transStream.late = 0

\* C29: in buffered mode, after a payload that is not JSON, receiveStream
\* never resolves with a completion object; once the stream has closed its
\* promise is rejected.
C29_MalformedPayloadFailsCompletion ==
  (mode = "buffered" /\ abort.on) =>
    /\ promise # "resolved"
    /\ upstream = "closed" => promise = "rejected"

\* C30: at most one deletion request is issued for a conversation.
C30_OneDeletionPerConversation ==
  \A c \in DOMAIN convs : convs[c].issued <= 1

\* ------------------------------------------- claims: pipeline, continued

\* The conversations created for the current attempt of request r.
ConvsOfAttempt(r) == {c \in ConvsOf(r) : convs[c].attempt = req[r].attempts}

\* C25: within one attempt the uploads come first, then the conversation is
\* created, then the message is prepared and sent: no conversation exists
\* for the attempt before every upload has completed, and the send is made
\* only after the uploads have completed and the conversation exists.
C25_UploadsThenConversationThenSend ==
  \A r \in Reqs :
    /\ ConvsOfAttempt(r) # {} => req[r].uploaded
    /\ req[r].pc = "uploading" => ConvsOfAttempt(r) = {}
    /\ \A c \in ConvsOfAttempt(r) :
         convs[c].sends > 0 => req[r].uploaded /\ req[r].convId = c

\* C25 as stated: the conversation is created before the uploads, so while
\* the uploads of an attempt run its conversation exists.
C25_ConversationBeforeUploads ==
  \A r \in Reqs : req[r].pc = "uploading" => ConvsOfAttempt(r) # {}

\* A request has completed its uploads, created its conversation and sent
\* its message.
C25_Witness ==
  \E r \in Reqs :
    /\ req[r].uploaded
    /\ req[r].stream = "open"
    /\ ConvsOfAttempt(r) = {req[r].convId}
    /\ convs[req[r].convId].sends = 1

\* ---------------------------------------------------- claims: repeated runs

\* Both runs have processed every event of a sequence that ends in DoneEvent.
BothRunsDone ==
  /\ events # <<>> /\ IsDone(events[Len(events)])
  /\ \A i \in Runs : runs[i].pos = Len(events) /\ ~runs[i].threw

C31_EvictsOnlyRejectedLease ==
  [][\A p \in Procs :
       /\ pc[p] = "request" /\ pc'[p] = "idle"
       /\ rejected' # NoRequest
       /\ accessTokenMap[call[p].key].kind = "lease"
       /\ accessTokenMap[call[p].key].id # call[p].token.access
       => accessTokenMap'[call[p].key] = accessTokenMap[call[p].key]]_vars

\* C35: a key has a pending-refresh entry only while an exchange for it is in
\* flight; a caller that waits, waits for an exchange that has not been
\* answered; and a call that returns without an exchange of its own found a
\* lease that was still valid (after a failed refresh there is none, so the
\* next call starts an exchange).
C35_ExchangeSettlesEveryCaller ==
  /\ \A k \in Keys : accessTokenRequestQueueMap[k].on <=> InFlight(k) # {}
  /\ \A k \in Keys : ~accessTokenRequestQueueMap[k].on =>
                       accessTokenRequestQueueMap[k].q = <<>>
  /\ \A p \in Procs :
       pc[p] \in {"refreshing", "queued"} =>
         /\ call[p].ex \in InFlight(call[p].key)
         /\ pc[p] = "queued" =>
              \E n \in DOMAIN accessTokenRequestQueueMap[call[p].key].q :
                accessTokenRequestQueueMap[call[p].key].q[n] = p
  /\ \A p \in Procs :
       call[p].out = "returned" /\ call[p].ex = 0 => call[p].valid

\* The key a step of caller p works on.
KeyOfStep(p) == IF pc[p] = "idle" THEN call'[p].key ELSE call[p].key

\* C37: a step of acquireToken, of a refresh exchange or of an eviction for
\* one key changes the cached value and the pending-refresh entry of no
\* other key.
C37_OtherKeysUnchanged ==
  [][\A k \in Keys :
       \/ /\ accessTokenMap'[k] = accessTokenMap[k]
          /\ accessTokenRequestQueueMap'[k] = accessTokenRequestQueueMap[k]
       \/ \A p \in Procs : pc'[p] # pc[p] => KeyOfStep(p) = k]_vars

\* A request for rt2 has been rejected and rt2's lease evicted while the
\* lease of rt1 is cached and an exchange for rt1 is in flight.
C37_Witness ==
  /\ rejected.key = "rt2" /\ rejected.op # "send"
  /\ accessTokenMap["rt2"] = NoEntry
  /\ accessTokenMap["rt1"].kind = "lease"
  /\ accessTokenRequestQueueMap["rt1"].on

\* ---------------------------------------------- claims: upload, polling

\* The last status poll answered that no further call is needed, with a
\* status that is not a failure.
LastPollDone ==
  /\ up.last # NoPoll
  /\ ~up.last.needFurtherCall
  /\ up.last.fileStatus \notin FailureStatuses

\* C32: after a status poll that needs no further call and reports no
\* failure status the upload settles and returns the attachment, whatever
\* time has elapsed since polling started.
C32_DonePollSucceeds ==
  LastPollDone => up.pc \in {"settling", "returned"} /\ up.error = "none"

\* C33: once a status poll has reported a status of the failure set the
\* upload has failed with FileUploadFailed, whether or not the answer asked
\* for a further call and however much time has elapsed, and no poll is
\* issued afterwards.
C33_FailureStatusAborts ==
  /\ [](up.last.fileStatus \in FailureStatuses =>
          up.pc = "threw" /\ up.error = "API_FILE_UPLOAD_FAILED")
  /\ [][up.last.fileStatus \in FailureStatuses => up' = up]_vars

\* A poll answered 61 seconds after polling started asked for a further
\* call and reported a failure status; the upload failed with
\* FileUploadFailed.
C33_Witness ==
  /\ up.pc = "threw" /\ up.error = "API_FILE_UPLOAD_FAILED"
  /\ up.last.fileStatus = 404
  /\ up.last.needFurtherCall
  /\ up.last.at - up.startTime > 60
  /\ up.polls = 2

IsError(p) == JSONParse(p).type = "error"

\* Text and error events, at least one of them an error event.
TextsAndErrors(ps) ==
  /\ \A i \in 1..Len(ps) : IsText(ps[i]) \/ IsError(ps[i])
  /\ \E i \in 1..Len(ps) : IsError(ps[i])

RECURSIVE TextsAndNotices(_)
\* The texts and, for each error event, the notice with its code and message,
\* in event order.
TextsAndNotices(ps) ==
  IF ps = <<>> THEN <<>>
  ELSE LET r == JSONParse(Head(ps))
       IN (IF r.type = "textEvent" /\ r.body # <<>>
             THEN <<Item("text", r.body)>>
           ELSE IF r.type = "error" THEN Notice(r.body)
           ELSE <<>>) \o TextsAndNotices(Tail(ps))

\* C34: in buffered mode an ErrorEvent puts the service-unavailable notice
\* into the answer where it arrived, the texts of later TextEvents follow it,
\* and the completion does not fail: it is pending while the response is
\* open and the parser has not thrown.
C34_ErrorEventAppendsNotice ==
  (mode = "buffered" /\ TextsAndErrors(parsed)) =>
    /\ data.content = TextsAndNotices(parsed)
    /\ ~abort.on
    /\ upstream = "open" => promise = "pending"

\* A text, an ErrorEvent and another text were received, the response closed
\* and the promise resolved with text, notice, text.
C34_Witness ==
  /\ mode = "buffered"
  /\ parsed = <<<<Tag.textEvent, 6>>, <<Tag.error, 9>>, <<Tag.textEvent, 7>>>>
  /\ promise = "resolved"
  /\ data.content = <<Item("text", <<6>>)>> \o Notice(<<9>>)
                      \o <<Item("text", <<7>>)>>

\* ------------------------------------------- claims: pipeline, failed uploads

\* C36: when an upload of an attempt has failed, no conversation was created
\* for that attempt and no message was sent for it (whether the request then
\* throws or waits for its retry).
C36_FailedUploadLeavesNoConversation ==
  \A r \in Reqs :
    req[r].thrown.stage = "upload" =>
      /\ \A c \in ConvsOf(r) : convs[c].attempt # req[r].thrown.attempt
      /\ \A c \in DOMAIN convs :
           <<r, req[r].thrown.attempt>> \notin convs[c].sentBy
      /\ req[r].convId = 0 /\ req[r].stream = "none"

\* With retry bound 1: the first attempt of a request created its
\* conversation and failed, the second failed in its uploads; the request
\* has thrown and only the first attempt's conversation exists.
C36_Witness ==
  \E r \in Reqs :
    /\ req[r].pc = "threw"
    /\ req[r].thrown = [stage |-> "upload", attempt |-> 2]
    /\ ConvsOf(r) # {}
    /\ \A c \in ConvsOf(r) : convs[c].attempt = 1

\* ------------------------------------------------ claims: message preparation

RECURSIVE TextOfParts(_, _)
\* "<role>:<text>\n" for each text part of a turn, other parts left out.
TextOfParts(role, parts) ==
  IF parts = <<>> THEN <<>>
  ELSE (IF Head(parts).type = "text"
        THEN role \o Colon \o Head(parts).text \o Newline ELSE <<>>)
         \o TextOfParts(role, Tail(parts))

RECURSIVE TextOfTurns(_)
\* Every turn as "<role>:<content>\n" with its own role, "user" when it has
\* none; a turn with a list of parts gives one such line per text part.
TextOfTurns(turns) ==
  IF turns = <<>> THEN <<>>
  ELSE LET turn == Head(turns)
           role == IF turn.role = NoRole THEN RoleUser ELSE turn.role
       IN (IF turn.content.isArray THEN TextOfParts(role, turn.content.parts)
           ELSE role \o Colon \o turn.content.str \o Newline)
            \o TextOfTurns(Tail(turns))

\* C38: the text messagesPrepare builds is the serialization of every turn
\* (the history with the instruction spliced in) as "<role>:<content>\n"
\* with the turn's own role, for string content and for each text part of
\* a part list alike, non-text parts left out, followed by "assistant:".
C38_TurnsSerializedWithOwnRole ==
  outgoing # NoOutgoing =>
    outgoing.text =
      TextOfTurns(Splice(ValidMessages(messages))) \o RoleAssistant \o Colon

\* C39: the outgoing message is one frame: byte 0x00, the byte length of the
\* UTF-8 JSON payload as four big-endian bytes, the payload; a decoder that
\* is given the frame whole or in two pieces cut anywhere emits nothing
\* before the last byte and then the payload, once.
C39_OutgoingFrameRoundTrip ==
  outgoing # NoOutgoing =>
    /\ outgoing.payload = BufferFrom(outgoing.json)
    /\ Len(outgoing.data) = Len(outgoing.payload) + 5
    /\ outgoing.data[1] = 0
    /\ ReadUint32BE(outgoing.data) = Len(outgoing.payload)
    /\ SubSeq(outgoing.data, 6, Len(outgoing.data)) = outgoing.payload
    /\ Len(outgoing.payload) > Len(outgoing.json)
    /\ rest # <<>> => dec.hands = <<>>
    /\ rest = <<>> => dec.hands = <<outgoing.payload>>
    /\ rest = <<>> => dec.chunk = <<>> /\ dec.temp = <<>>

\* The frame of a two-turn history with attachments arrived in two pieces,
\* the first one three bytes of the header, and the decoder emitted the
\* payload.
C39_Witness ==
  /\ Len(messages) = 2 /\ refs
  /\ dec.pieces = <<3, Len(outgoing.data) - 3>>
  /\ rest = <<>>
  /\ dec.hands = <<outgoing.payload>>

====
